---------------------------- MODULE Spec2Model ----------------------------
(***************************************************************************)
(* Model of the loopback scenario of providers/base/src/alsa_test.cpp:     *)
(* main -> loopback_test on the primary device pair -> fallback_loopback   *)
(* over the enumerated device pairs, with the capture thread of every      *)
(* attempt, the Pcm handles each attempt opens and releases, and the       *)
(* pass criterion applied to the detected dominant frequency.              *)
(*                                                                         *)
(* Frequencies are kept as spectrum bin indexes: dominant_freq returns     *)
(* i / (buffsize / rate) with buffsize = 2 * sampling_rate * duration and  *)
(* rate = 2 * sampling_rate, that is i / duration Hz, so every comparison  *)
(* of the pass criterion is done exactly on integers after multiplying by  *)
(* duration.  Durations are powers of two, for which the float arithmetic  *)
(* of the code is exact.                                                   *)
(*                                                                         *)
(* The other programs are modelled next to it, each with its own variables *)
(* and specification: the parts of alsa_test (Pcm, sine, record,           *)
(* dominant_freq, fft, main's dispatch), threaded_memtest.c, clocktest.c,  *)
(* 80211_resource.c and rand_mouse_moves of keyboard-mouse_test.c.         *)
(***************************************************************************)
EXTENDS Integers, Sequences, FiniteSets, TLC

\* ------------------------------------------------------------------ bounds
\* Longest device hint list returned by snd_device_name_hint.
MaxHints == 2
\* Detected frequencies are drawn from test_freq -/+ FreqWindow Hz (and bin 0).
FreqWindow == 7
\* Pcm objects constructed one after the other in the handle lifecycle.
MaxCycles == 2
\* sin() returns k/SineSteps for -SineSteps <= k <= SineSteps
SineSteps == 8
\* amplitudes are k/AmpSteps for 0 <= k <= AmpSteps
AmpSteps == 4
\* record() is asked for at most MaxRecordSamples samples
MaxRecordSamples == 9
\* on a handle whose period is at most MaxRecordPeriod frames
MaxRecordPeriod == 3
\* dominant_freq is given at most MaxBins samples
MaxBins == 5
\* whose spectrum magnitudes are 0 .. MaxMagnitude
MaxMagnitude == 2
\* fft is called on 0 .. MaxFftLen elements
MaxFftLen == 9
\* 80211_resource receives at most MaxPhyMsgs wiphy messages
MaxPhyMsgs == 2
\* threaded_memtest runs with -n 1 .. MaxThreads
MaxThreads == 3
\* and -t 1 .. MaxRuntime
MaxRuntime == 1

\* ------------------------------------------------------- program constants
\* for (int attempt = 0; attempt < 3; ++attempt)
MaxAttempts == 3
\* const float test_freq = 440.0f;
test_freq == 440
\* float epsilon = 5 / duration + 1;   (the 5 and the 1)
EpsNum == 5
EpsAdd == 1

\* The device name fallback_loopback skips.
Excluded == "surround40:CARD=PCH,DEV=0"

\* Device names the hint list is drawn from, in card order.
CardOrder == <<"hw:0", Excluded, "hw:1">>
\* IOID of a hint; a missing IOID reads as "Both".
IoIds == {"Output", "Input", "Both"}
\* -d <seconds>
Durations == {1, 2, 4}
\* --capture-pcm / --playback-pcm (default "default")
PcmArgs == {"default", "hw:0"}

VARIABLES
    \* inputs of the run
    hints,          \* sequence of [name, ioid]: the ALSA device hints
    duration,       \* main's duration
    absIsInt,       \* which overload the unqualified abs() resolved to in this build
    capture_pcm,    \* main's capture_pcm
    playback_pcm,   \* main's playback_pcm
    \* main
    mainPc,         \* "start", "primary", "fallback", "exited"
    exitStatus,     \* "running", "exit0", "exit1", "terminate"
    primaryResult,  \* "none", "pass", "fail", "raised"
    primaryDevErr,  \* "none", "capture", "playback": device error hit by the primary call
    fallbackRan,    \* fallback_loopback was called
    \* fallback_loopback
    fbPc,           \* "idle", "loop", "call", "done"
    pIdx, rIdx,     \* positions of the player and recorder iterators (1-based)
    tried,          \* sequence of <<capture, playback>> pairs handed to loopback_test
    passedPairs,    \* the tried pairs on which loopback_test returned 0
    fbResult,       \* "none", "pass", "fail"
    \* loopback_test (the active call)
    ltPc,           \* position of the orchestrator thread
    ltCapture, ltPlayback,  \* the call's capture_pcm and playback_pcm
    attempt,        \* the loop variable
    recorder, player,       \* the Pcm objects alive in the current iteration
    recPc,          \* rec_thread: "none", "running", "done", "joined"
    dominant,       \* bin index found by dominant_freq in the current attempt (-1: none)
    verdicts,       \* the pass criterion's verdict for each analysed attempt of the call
    ltResult,       \* "none", "pass", "fail", "raised"
    devErr,         \* "none", "capture", "playback": device error hit by the call
    errAttempt,     \* the attempt in which it was hit (-1: none)
    opened,         \* number of handles the call has opened so far
    prevHandles,    \* ids of the handles used in earlier attempts of the call
    openHandles,    \* ids of the handles opened and not yet closed
    recUsers,       \* the tasks that have called into the current recorder
    playUsers,      \* the tasks that have called into the current player
    concurrentUse,  \* the orchestrator called into the recorder while rec_thread ran
    \* one Pcm object at a time, from constructor to destructor
    pcmPc,          \* "none", "open", "configured", "used", "unwinding", "destroyed"
    pcm,            \* the object: device, the Mode the constructor was called with
    pcmCalls,       \* the ALSA calls issued on the object's handle before ~Pcm
    pcmLog,         \* per destroyed object: how it was opened, what ~Pcm called
    pcmCycles       \* constructor calls so far

inputVars == <<hints, duration, absIsInt, capture_pcm, playback_pcm>>
mainVars == <<mainPc, exitStatus, primaryResult, primaryDevErr, fallbackRan>>
fbVars == <<fbPc, pIdx, rIdx, tried, passedPairs, fbResult>>
ltVars == <<ltPc, ltCapture, ltPlayback, attempt, recorder, player, recPc, dominant,
            verdicts, ltResult, devErr, errAttempt, opened, prevHandles, openHandles,
            recUsers, playUsers, concurrentUse>>
pcmVars == <<pcmPc, pcm, pcmCalls, pcmLog, pcmCycles>>
alsaVars == <<inputVars, mainVars, fbVars, ltVars, pcmVars>>

VARIABLES
    \* one frame computed by the body of Pcm::sine's inner loop
    smPc,           \* "input", "stored"
    smEnc,          \* storage_type: "int16", "uint16", "float"
    smSin,          \* the value sin() returned, in units of 1/SineSteps
    smAmp,          \* amplitude, in units of 1/AmpSteps
    smFrame         \* <<buff[i], buff[i+1]>> (float: in units of 1/SampleDen)

sampleVars == <<smPc, smEnc, smSin, smAmp, smFrame>>

VARIABLES
    \* one call of Pcm::sine on a configured playback handle
    snPc,           \* "idle", "loop", "done"
    snRate,         \* this->rate, frames per second
    snPeriod,       \* this->period, frames
    snDur,          \* duration, seconds
    snT,            \* t
    snFrames,       \* frames passed to snd_pcm_writei so far
    snWrites,       \* calls of snd_pcm_writei so far
    snUnderruns,    \* of these, the calls that returned -EPIPE
    snPrepares,     \* calls of snd_pcm_prepare so far
    snStream,       \* the stream's state: "prepared", "running", "xrun"
    snRaised        \* an AlsaError left sine()

sineVars == <<snPc, snRate, snPeriod, snDur, snT, snFrames, snWrites, snUnderruns,
              snPrepares, snStream, snRaised>>

VARIABLES
    \* one call of Pcm::record on a configured capture handle
    rcPc,           \* "idle", "loop", "done"
    rcPeriod,       \* this->period, frames (two samples each)
    rcN,            \* the buff_size the caller passed, samples
    rcLeft,         \* buff_size
    rcPos,          \* buff, as an offset from the caller's buff
    rcCaptured,     \* samples of the caller's buffer that hold data read from the device
    rcGarbage,      \* samples of it copied from unwritten parts of local_buff
    rcHigh          \* one past the highest index of the caller's buffer record() wrote

recordVars == <<rcPc, rcPeriod, rcN, rcLeft, rcPos, rcCaptured, rcGarbage, rcHigh>>

VARIABLES
    \* one call of dominant_freq
    dfPc,           \* "input", "done"
    dfN,            \* buffsize
    dfRate,         \* rate
    dfMag,          \* std::abs(data[i]) of the bins after fft(data), i = 0 .. buffsize-1
    dfResult,       \* the float returned, as the fraction num/den
    dfVerdict,      \* loopback_test's verdict on the result: "none", "pass", "fail"
    \* loopback_test's buffer and the recursion of fft on it
    ffPc,           \* "input", "fft", "done"
    ffRate,         \* sampling_rate
    ffDur,          \* duration, in sixteenths of a second
    ffBuffsize,     \* buffsize
    ffLen,          \* N of the fft calls at the current recursion depth
    ffDepth,        \* the recursion depth
    ffOddSplit      \* some call of fft split an odd N

dfVars == <<dfPc, dfN, dfRate, dfMag, dfResult, dfVerdict>>
ffVars == <<ffPc, ffRate, ffDur, ffBuffsize, ffLen, ffDepth, ffOddSplit>>
dspVars == <<dfVars, ffVars>>

VARIABLES
    \* one run of main, from the command line to the exit status
    clPc,           \* "start", "parsed", "exited"
    clScenario,     \* args[1], "" when there is none
    clFormatOpt,    \* the word after --format, "" when the option is absent
    clPlaybackOpt,  \* the word after --playback-pcm, "" when there is none
    clPlaybackPcm,  \* main's playback_pcm
    clOpened,       \* the device the playback stream was opened on, "none" before
    clScenarios,    \* the keys of the scenarios map
    clRan,          \* the test functions called, in order
    clOutcome,      \* the selected scenario's outcome: "none", "pass", "fail", "raised"
    clExit          \* "running", "exit0", "exit1", "terminate"

cliVars == <<clPc, clScenario, clFormatOpt, clPlaybackOpt, clScenarios, clPlaybackPcm,
            clRan, clOpened, clOutcome, clExit>>

VARIABLES
    \* threaded_memtest: main's thread start-up and the threads it creates
    mtPc,           \* main's position, from "test" (the creation loop) to "exited"
    num_threads,    \* -n
    parallel,       \* -p
    runtime,        \* -t, seconds
    created_threads,
    mmap_done,
    live_threads,
    started,        \* start.tv_sec != 0
    done,
    sigint,         \* SIGINT was delivered during the timer loop
    timerI,         \* main's i: the seconds slept in full
    rv,             \* main's rv, -1 before it is decided
    joined,         \* the indexes of threads[] main has joined, in order
    running_threads,
    ctHolder,       \* the thread holding ct_mutex, 0 when it is free
    testHolder,     \* the thread holding test_mutex, 0 when it is free
    finishHolder,   \* the thread holding finish_mutex, 0 when it is free
    thPc,           \* per thread, in creation order: its position in mem_twiddler
    thId,           \* per thread: its thread_id, -1 before it is assigned
    thTmp,          \* per thread: the value of running_threads it read for ++ or --
    unmapped,       \* the threads that have unmapped their region
    staleAccess,    \* a test-loop iteration touched a region that was unmapped
    corrupted,      \* a test-loop iteration detected memory corruption
    handleSlots,    \* per pthread_create call: the index of threads[] it was given
    regionWriters,  \* per index of mmap_regions: the threads that wrote the slot
    counterWriters  \* per index of loop_counters: the threads that wrote the slot

memVars == <<mtPc, num_threads, parallel, runtime, created_threads, mmap_done,
             live_threads, started, done, sigint, timerI, rv, joined, running_threads,
             ctHolder, testHolder, finishHolder, thPc, thId, thTmp, handleSlots,
             regionWriters, counterWriters, unmapped, staleAccess, corrupted>>
VARIABLES
    \* clocktest: main, and test_clock_direction's two loops
    ckPc,           \* "start", "sleep", "judge", "dirReturn", "mainReturn", "exited"
    ckJitter,       \* what test_clock_jitter returned, -1 before it ran
    ckIteration,    \* iteration
    ckElapsed,      \* per iteration: tval_result, as <<tv_sec, tv_usec>>
    ckDeltas,       \* deltas[], in microseconds
    ckFailures,     \* test_clock_direction's failures
    ckMainFailures, \* main's failures
    ckExit          \* the exit status, -1 while running

clockVars == <<ckPc, ckJitter, ckIteration, ckElapsed, ckDeltas, ckFailures,
               ckMainFailures, ckExit>>
VARIABLES
    \* one call of fft on a buffer of any length, with the calls it makes
    fcPc,           \* "call" while fft runs, "done" when the outermost call returned
    fcN,            \* x.size() of the outermost call
    fcStack,        \* the active calls, outermost first: N, position, the indexes
                    \* of x the call has read and has written
    fcMaxDepth,     \* the largest number of active calls so far
    fcCalls         \* the calls made so far

fftCallVars == <<fcPc, fcN, fcStack, fcMaxDepth, fcCalls>>
VARIABLES
    \* 80211_resource: one run of main
    wfPc,           \* main's position, from "init" to "exited"
    wfErr,          \* err
    wfCap,          \* cap, per flag: "indeterminate", "clear" or "set"
    wfSetBy,        \* per flag: what set it, "nothing", "print_phy_handler", "lspci"
    wfMsgs,         \* the messages print_phy_handler was called for
    wfCallbackRan,  \* finish_handler or error_handler has run
    wfRecvAfter,    \* nl_recvmsgs was called after one of them had run
    wfUninitRead,   \* the flags that were read while indeterminate
    wfPrinted,      \* the flags whose line was printed
    wfExit          \* the exit status, "running" before

wifiVars == <<wfPc, wfErr, wfCap, wfSetBy, wfMsgs, wfCallbackRan, wfRecvAfter,
              wfUninitRead, wfPrinted, wfExit>>
VARIABLES
    \* keyboard-mouse_test: one call of rand_mouse_moves
    mvPc,           \* "rand", "loop", "rest", "done"
    mvX,            \* x
    mvY,            \* y
    mvSteps,        \* steps
    mvI,            \* i
    mvMoves,        \* the calls of mouse_move, as <<x, y>>, in order
    mvDivByZero     \* a division or a remainder was taken with divisor 0

mouseVars == <<mvPc, mvX, mvY, mvSteps, mvI, mvMoves, mvDivByZero>>
toolVars == <<clockVars, fftCallVars, wifiVars, mouseVars>>
audioVars == <<alsaVars, sampleVars, sineVars, recordVars, dspVars, cliVars>>
clockRest == <<audioVars, memVars, fftCallVars, wifiVars, mouseVars>>
fftCallRest == <<audioVars, memVars, clockVars, wifiVars, mouseVars>>
wifiRest == <<audioVars, memVars, clockVars, fftCallVars, mouseVars>>
mouseRest == <<audioVars, memVars, clockVars, fftCallVars, wifiVars>>
alsaAll == <<alsaVars, sampleVars, sineVars, recordVars, dspVars, cliVars, toolVars>>
auxVars == <<sampleVars, sineVars, recordVars, dspVars, cliVars, memVars, toolVars>>
vars == <<alsaVars, auxVars>>

\* ----------------------------------------------------------------- helpers
Abs(x) == IF x < 0 THEN -x ELSE x

RECURSIVE SelectSeqBy(_, _)
\* The names of the hints whose IOID is io, in hint order.
SelectSeqBy(hs, io) ==
    IF hs = <<>> THEN <<>>
    ELSE IF Head(hs).ioid = io
         THEN <<Head(hs).name>> \o SelectSeqBy(Tail(hs), io)
         ELSE SelectSeqBy(Tail(hs), io)

\* Alsa::get_devices(io): the names of the hints whose direction equals io.
get_devices(io) == SelectSeqBy(hints, io)

\* fallback_loopback's lists: Output then Both, Input then Both.
playback == get_devices("Output") \o get_devices("Both")
record == get_devices("Input") \o get_devices("Both")

\* Hint lists: a subsequence of the cards, each with an IOID.
RECURSIVE HintLists(_)
HintLists(cards) ==
    IF cards = <<>> THEN {<<>>}
    ELSE LET rest == HintLists(Tail(cards))
         IN rest \cup
            { <<[name |-> Head(cards), ioid |-> io]>> \o r : io \in IoIds, r \in rest }

NoHandle == [id |-> 0, dev |-> "", openedAs |-> "none", attempt |-> -1]


\* ------------------------------------------------------------------- Pcm
\* Mutant: the Pcm objects are kept across iterations, so from the second attempt on
\* an attempt gets the handle of the attempt before.
StaleHandleId == IF opened >= 2 THEN opened - 1 ELSE opened + 1

\* Pcm::Pcm: snd_pcm_open hands out a handle no earlier open of the call returned.
NewHandleId == opened + 1

\* The Pcm object a successful constructor call leaves behind.
OpenPcm(dev, mode) ==
    [id |-> NewHandleId, dev |-> dev, openedAs |-> mode, attempt |-> attempt]

\* Pcm::~Pcm always ends with snd_pcm_close: the handle is no longer open.
ClosePcm(h, handles) == handles \ {h.id}

\* --------------------------------------------------------- pass criterion
\* The bins dominant_freq can return for this duration: bin 0 (silence, or an
\* empty buffer) and the bins of test_freq -/+ FreqWindow Hz.
DetectedBins ==
    {0} \cup ((test_freq - FreqWindow) * duration .. (test_freq + FreqWindow) * duration)

\* float epsilon = 5 / duration + 1, times duration.
epsilon == EpsNum + EpsAdd * duration

\* float deviation = abs(test_freq - dominant), times duration, for dominant =
\* bin / duration.  The call is unqualified: where only ::abs(int) is visible the
\* argument is converted to int (truncated towards zero) first.
deviation(bin) ==
    LET diff == Abs(test_freq * duration - bin)
    IN IF absIsInt THEN (diff \div duration) * duration ELSE diff

\* if (dominant > 0.0f) { ... if (deviation <= epsilon) return 0; }
AttemptPasses(bin) == bin > 0 /\ deviation(bin) <= epsilon

\* ---------------------------------------------------------- loopback_test
\* The call is made from fallback_loopback's try block (a handler for AlsaError
\* exists); main calls the primary pair with no handler.
HandlerExists == fbPc = "call"

\* Mutant: off-by-one loop bound (attempt <= 3).
LoopContinuesOffByOne(a) == a <= MaxAttempts

\* for (...; attempt < 3; ...)
LoopContinues(a) == a < MaxAttempts

\* Mutant: the orchestrator does not wait for the capture thread (detach for join).
JoinNoWait == TRUE

\* rec_thread.join() returns once the capture thread has finished.
JoinReady == recPc = "done"

\* Mutant: the handler counts the attempt as failed and goes on with the next one.
CatchHandlerRetry == [pc |-> "loopHead", result |-> "none"]

\* catch (Alsa::AlsaError& exc) { rec_thread.join(); return 1; }
CatchHandler == [pc |-> "returned", result |-> "fail"]

\* The task that runs recorder.record: the lambda handed to std::thread.
RecordTask == "rec_thread"

\* The orchestrator (the thread that called loopback_test) calls into the recorder:
\* constructor, set_params, destructor.
MainTouchesRecorder ==
    /\ recUsers' = recUsers \cup {"main"}
    /\ concurrentUse' = (concurrentUse \/ recPc = "running")

\* The orchestrator calls into the player: constructor, set_params, sine, drain,
\* destructor.
MainTouchesPlayer == playUsers' = playUsers \cup {"main"}

\* Entering loopback_test(capture, playback): locals initialised, attempt = 0.
CallLoopbackTest(cap, play) ==
    /\ ltPc' = "loopHead"
    /\ ltCapture' = cap
    /\ ltPlayback' = play
    /\ attempt' = 0
    /\ recorder' = NoHandle
    /\ player' = NoHandle
    /\ recPc' = "none"
    /\ dominant' = -1
    /\ verdicts' = <<>>
    /\ ltResult' = "none"
    /\ devErr' = "none"
    /\ errAttempt' = -1
    /\ opened' = 0
    /\ prevHandles' = {}
    /\ recUsers' = {}
    /\ playUsers' = {}
    /\ concurrentUse' = FALSE
    /\ UNCHANGED openHandles

\* for-loop head: next attempt, or "return 1" after the last one.
LtLoopHead ==
    /\ ltPc = "loopHead"
    /\ IF LoopContinues(attempt)
       THEN /\ ltPc' = "zerofill"
            /\ UNCHANGED ltResult
       ELSE /\ ltPc' = "returned"
            /\ ltResult' = "fail"
    /\ UNCHANGED <<ltCapture, ltPlayback, attempt, recorder, player, recPc, dominant,
                   verdicts, devErr, errAttempt, opened, prevHandles, openHandles>>
    /\ UNCHANGED <<recUsers, concurrentUse, playUsers>>
    /\ UNCHANGED <<auxVars, pcmVars, inputVars, mainVars, fbVars>>

\* for (int i=0; i<buffsize; i++) buff[i] = storage_type(0);
LtZeroFill ==
    /\ ltPc = "zerofill"
    /\ ltPc' = "openRec"
    /\ dominant' = -1
    /\ UNCHANGED <<ltCapture, ltPlayback, attempt, recorder, player, recPc,
                   verdicts, ltResult, devErr, errAttempt, opened, prevHandles, openHandles>>
    /\ UNCHANGED <<recUsers, concurrentUse, playUsers>>
    /\ UNCHANGED <<auxVars, pcmVars, inputVars, mainVars, fbVars>>

\* auto recorder = Pcm(capture_pcm, Mode::capture): snd_pcm_open succeeded.
LtOpenRecorder ==
    /\ ltPc = "openRec"
    /\ ltPc' = "cfgRec"
    /\ recorder' = OpenPcm(ltCapture, "capture")
    /\ opened' = opened + 1
    /\ openHandles' = openHandles \cup {recorder'.id}
    /\ UNCHANGED <<ltCapture, ltPlayback, attempt, player, recPc, dominant,
                   verdicts, ltResult, devErr, errAttempt, prevHandles>>
    /\ recUsers' = {"main"}
    /\ concurrentUse' = (concurrentUse \/ recPc = "running")
    /\ UNCHANGED <<playUsers>>
    /\ UNCHANGED <<auxVars, pcmVars, inputVars, mainVars, fbVars>>

\* snd_pcm_open failed: the constructor throws AlsaError, outside the try block,
\* so the exception leaves loopback_test.
LtOpenRecorderFail ==
    /\ ltPc = "openRec"
    /\ ltPc' = "returned"
    /\ ltResult' = "raised"
    /\ devErr' = "capture"
    /\ errAttempt' = attempt
    /\ UNCHANGED <<ltCapture, ltPlayback, attempt, recorder, player, recPc, dominant,
                   verdicts, opened, prevHandles, openHandles>>
    /\ UNCHANGED <<recUsers, concurrentUse, playUsers>>
    /\ UNCHANGED <<auxVars, pcmVars, inputVars, mainVars, fbVars>>

\* recorder.set_params(sampling_rate) succeeded.
LtConfigRecorder ==
    /\ ltPc = "cfgRec"
    /\ ltPc' = "spawn"
    /\ UNCHANGED <<ltCapture, ltPlayback, attempt, recorder, player, recPc, dominant,
                   verdicts, ltResult, devErr, errAttempt, opened, prevHandles, openHandles>>
    /\ MainTouchesRecorder
    /\ UNCHANGED <<playUsers>>
    /\ UNCHANGED <<auxVars, pcmVars, inputVars, mainVars, fbVars>>

\* recorder.set_params throws AlsaError, outside the try block.  With a handler up
\* the stack the recorder is destroyed while unwinding; with none (the primary
\* call) std::terminate is called and whether the stack is unwound first is
\* implementation-defined.
LtConfigRecorderFail ==
    /\ ltPc = "cfgRec"
    /\ ltPc' = "returned"
    /\ ltResult' = "raised"
    /\ devErr' = "capture"
    /\ errAttempt' = attempt
    /\ \E unwound \in (IF HandlerExists THEN {TRUE} ELSE BOOLEAN) :
          IF unwound
          THEN /\ openHandles' = ClosePcm(recorder, openHandles)
               /\ prevHandles' = prevHandles \cup {recorder.id}
               /\ recorder' = NoHandle
          ELSE UNCHANGED <<openHandles, prevHandles, recorder>>
    /\ UNCHANGED <<ltCapture, ltPlayback, attempt, player, recPc, dominant,
                   verdicts, opened>>
    /\ MainTouchesRecorder
    /\ UNCHANGED <<playUsers>>
    /\ UNCHANGED <<auxVars, pcmVars, inputVars, mainVars, fbVars>>

\* std::thread rec_thread([&]{ recorder.record(&buff[0], buffsize); });
LtStartThread ==
    /\ ltPc = "spawn"
    /\ ltPc' = "openPlay"
    /\ recPc' = "running"
    /\ UNCHANGED <<ltCapture, ltPlayback, attempt, recorder, player, dominant,
                   verdicts, ltResult, devErr, errAttempt, opened, prevHandles, openHandles>>
    /\ UNCHANGED <<recUsers, concurrentUse, playUsers>>
    /\ UNCHANGED <<auxVars, pcmVars, inputVars, mainVars, fbVars>>

\* The capture thread: recorder.record fills buff and the thread function returns.
RecThreadRecord ==
    /\ recPc = "running"
    /\ recPc' = "done"
    /\ UNCHANGED <<ltPc, ltCapture, ltPlayback, attempt, recorder, player, dominant,
                   verdicts, ltResult, devErr, errAttempt, opened, prevHandles, openHandles>>
    /\ recUsers' = recUsers \cup {RecordTask}
    /\ UNCHANGED concurrentUse
    /\ UNCHANGED <<playUsers>>
    /\ UNCHANGED <<auxVars, pcmVars, inputVars, mainVars, fbVars>>

\* auto player = Pcm(playback_pcm): snd_pcm_open succeeded (inside the try block).
LtOpenPlayer ==
    /\ ltPc = "openPlay"
    /\ ltPc' = "cfgPlay"
    /\ player' = OpenPcm(ltPlayback, "playback")
    /\ opened' = opened + 1
    /\ openHandles' = openHandles \cup {player'.id}
    /\ UNCHANGED <<ltCapture, ltPlayback, attempt, recorder, recPc, dominant,
                   verdicts, ltResult, devErr, errAttempt, prevHandles>>
    /\ playUsers' = {"main"}
    /\ UNCHANGED <<recUsers, concurrentUse>>
    /\ UNCHANGED <<auxVars, pcmVars, inputVars, mainVars, fbVars>>

\* The player's constructor throws AlsaError inside the try block.
LtOpenPlayerFail ==
    /\ ltPc = "openPlay"
    /\ ltPc' = "catch"
    /\ devErr' = "playback"
    /\ errAttempt' = attempt
    /\ UNCHANGED <<ltCapture, ltPlayback, attempt, recorder, player, recPc, dominant,
                   verdicts, ltResult, opened, prevHandles, openHandles>>
    /\ UNCHANGED <<recUsers, concurrentUse, playUsers>>
    /\ UNCHANGED <<auxVars, pcmVars, inputVars, mainVars, fbVars>>

\* player.set_params(sampling_rate) succeeded.
LtConfigPlayer ==
    /\ ltPc = "cfgPlay"
    /\ ltPc' = "sine"
    /\ UNCHANGED <<ltCapture, ltPlayback, attempt, recorder, player, recPc, dominant,
                   verdicts, ltResult, devErr, errAttempt, opened, prevHandles, openHandles>>
    /\ MainTouchesPlayer
    /\ UNCHANGED <<recUsers, concurrentUse>>
    /\ UNCHANGED <<auxVars, pcmVars, inputVars, mainVars, fbVars>>

\* player.set_params throws AlsaError inside the try block: the player is
\* destroyed while unwinding to the handler.
LtConfigPlayerFail ==
    /\ ltPc = "cfgPlay"
    /\ ltPc' = "catch"
    /\ devErr' = "playback"
    /\ errAttempt' = attempt
    /\ openHandles' = ClosePcm(player, openHandles)
    /\ prevHandles' = prevHandles \cup {player.id}
    /\ player' = NoHandle
    /\ UNCHANGED <<ltCapture, ltPlayback, attempt, recorder, recPc, dominant,
                   verdicts, ltResult, opened>>
    /\ MainTouchesPlayer
    /\ UNCHANGED <<recUsers, concurrentUse>>
    /\ UNCHANGED <<auxVars, pcmVars, inputVars, mainVars, fbVars>>

\* player.sine(test_freq, duration, 0.5f)
LtSine ==
    /\ ltPc = "sine"
    /\ ltPc' = "drain"
    /\ UNCHANGED <<ltCapture, ltPlayback, attempt, recorder, player, recPc, dominant,
                   verdicts, ltResult, devErr, errAttempt, opened, prevHandles, openHandles>>
    /\ MainTouchesPlayer
    /\ UNCHANGED <<recUsers, concurrentUse>>
    /\ UNCHANGED <<auxVars, pcmVars, inputVars, mainVars, fbVars>>

\* player.drain()
LtDrain ==
    /\ ltPc = "drain"
    /\ ltPc' = "join"
    /\ UNCHANGED <<ltCapture, ltPlayback, attempt, recorder, player, recPc, dominant,
                   verdicts, ltResult, devErr, errAttempt, opened, prevHandles, openHandles>>
    /\ MainTouchesPlayer
    /\ UNCHANGED <<recUsers, concurrentUse>>
    /\ UNCHANGED <<auxVars, pcmVars, inputVars, mainVars, fbVars>>

\* rec_thread.join() at the end of the try block, then the block's scope ends and
\* the player is destroyed; dominant_freq starts on buff.
LtJoin ==
    /\ ltPc = "join"
    /\ JoinReady
    /\ ltPc' = "analyze"
    /\ recPc' = IF recPc = "done" THEN "joined" ELSE recPc
    /\ openHandles' = ClosePcm(player, openHandles)
    /\ prevHandles' = prevHandles \cup {player.id}
    /\ player' = NoHandle
    /\ UNCHANGED <<ltCapture, ltPlayback, attempt, recorder, dominant,
                   verdicts, ltResult, devErr, errAttempt, opened>>
    /\ MainTouchesPlayer
    /\ UNCHANGED <<recUsers, concurrentUse>>
    /\ UNCHANGED <<auxVars, pcmVars, inputVars, mainVars, fbVars>>

\* float dominant = dominant_freq(&buff[0], buffsize, sampling_rate * 2): the bin
\* depends on what the hardware captured.
LtAnalyze ==
    /\ ltPc = "analyze"
    /\ ltPc' = "judge"
    /\ \E bin \in DetectedBins : dominant' = bin
    /\ verdicts' = Append(verdicts, AttemptPasses(dominant'))
    /\ UNCHANGED <<ltCapture, ltPlayback, attempt, recorder, player, recPc,
                   ltResult, devErr, errAttempt, opened, prevHandles, openHandles>>
    /\ UNCHANGED <<recUsers, concurrentUse, playUsers>>
    /\ UNCHANGED <<auxVars, pcmVars, inputVars, mainVars, fbVars>>

\* The criterion holds: return 0 (rec_thread and recorder are destroyed).
LtJudgePass ==
    /\ ltPc = "judge"
    /\ AttemptPasses(dominant)
    /\ ltPc' = "returned"
    /\ ltResult' = "pass"
    /\ openHandles' = ClosePcm(recorder, openHandles)
    /\ prevHandles' = prevHandles \cup {recorder.id}
    /\ recorder' = NoHandle
    /\ UNCHANGED <<ltCapture, ltPlayback, attempt, player, recPc, dominant,
                   verdicts, devErr, errAttempt, opened>>
    /\ MainTouchesRecorder
    /\ UNCHANGED <<playUsers>>
    /\ UNCHANGED <<auxVars, pcmVars, inputVars, mainVars, fbVars>>

\* The criterion fails: the iteration ends (rec_thread and recorder are
\* destroyed) and ++attempt.
LtJudgeFail ==
    /\ ltPc = "judge"
    /\ ~AttemptPasses(dominant)
    /\ ltPc' = "loopHead"
    /\ attempt' = attempt + 1
    /\ dominant' = -1
    /\ openHandles' = ClosePcm(recorder, openHandles)
    /\ prevHandles' = prevHandles \cup {recorder.id}
    /\ recorder' = NoHandle
    /\ UNCHANGED <<ltCapture, ltPlayback, player, recPc,
                   verdicts, ltResult, devErr, errAttempt, opened>>
    /\ MainTouchesRecorder
    /\ UNCHANGED <<playUsers>>
    /\ UNCHANGED <<auxVars, pcmVars, inputVars, mainVars, fbVars>>

\* catch (Alsa::AlsaError& exc) { rec_thread.join(); return 1; }
LtCatch ==
    /\ ltPc = "catch"
    /\ JoinReady
    /\ ltPc' = CatchHandler.pc
    /\ ltResult' = CatchHandler.result
    /\ attempt' = IF CatchHandler.pc = "loopHead" THEN attempt + 1 ELSE attempt
    /\ recPc' = IF recPc = "done" THEN "joined" ELSE recPc
    /\ openHandles' = ClosePcm(recorder, openHandles)
    /\ prevHandles' = prevHandles \cup {recorder.id}
    /\ recorder' = NoHandle
    /\ UNCHANGED <<ltCapture, ltPlayback, player, dominant,
                   verdicts, devErr, errAttempt, opened>>
    /\ MainTouchesRecorder
    /\ UNCHANGED <<playUsers>>
    /\ UNCHANGED <<auxVars, pcmVars, inputVars, mainVars, fbVars>>

loopback_test ==
    \/ LtLoopHead \/ LtZeroFill
    \/ LtOpenRecorder \/ LtOpenRecorderFail
    \/ LtConfigRecorder \/ LtConfigRecorderFail
    \/ LtStartThread \/ RecThreadRecord
    \/ LtOpenPlayer \/ LtOpenPlayerFail
    \/ LtConfigPlayer \/ LtConfigPlayerFail
    \/ LtSine \/ LtDrain \/ LtJoin
    \/ LtAnalyze \/ LtJudgePass \/ LtJudgeFail \/ LtCatch

\* ------------------------------------------------------ fallback_loopback
\* Mutant: the outer loop stops one player early.
PlayerLoopDoneEarly == pIdx >= Len(playback)

\* player != playback.cend() is false: the outer loop is over.
PlayerLoopDone == pIdx > Len(playback)

\* Mutant: the comparison is made against another device name.
IsExcludedPlayerTypo(p) == p = "surround40:CARD=PCH,DEV=1"

\* if (*player == std::string{"surround40:CARD=PCH,DEV=0"}) continue;
IsExcludedPlayer(p) == p = Excluded

\* Entering fallback_loopback: the lists are built, player = playback.cbegin().
CallFallback ==
    /\ fbPc' = "outer"
    /\ pIdx' = 1
    /\ rIdx' = 1
    /\ tried' = <<>>
    /\ passedPairs' = {}
    /\ fbResult' = "none"

\* Every player has been gone through: return 1.
FbExhausted ==
    /\ fbPc = "outer"
    /\ PlayerLoopDone
    /\ fbPc' = "done"
    /\ fbResult' = "fail"
    /\ UNCHANGED <<pIdx, rIdx, tried, passedPairs>>
    /\ UNCHANGED <<auxVars, pcmVars, inputVars, mainVars, ltVars>>

\* The player is the excluded device: continue with the next player.
FbSkipExcluded ==
    /\ fbPc = "outer"
    /\ ~PlayerLoopDone
    /\ IsExcludedPlayer(playback[pIdx])
    /\ pIdx' = pIdx + 1
    /\ UNCHANGED <<fbPc, rIdx, tried, passedPairs, fbResult>>
    /\ UNCHANGED <<auxVars, pcmVars, inputVars, mainVars, ltVars>>

\* The inner loop starts for this player: recorder = record.cbegin().
FbEnterInner ==
    /\ fbPc = "outer"
    /\ ~PlayerLoopDone
    /\ ~IsExcludedPlayer(playback[pIdx])
    /\ fbPc' = "inner"
    /\ rIdx' = 1
    /\ UNCHANGED <<pIdx, tried, passedPairs, fbResult>>
    /\ UNCHANGED <<auxVars, pcmVars, inputVars, mainVars, ltVars>>

\* recorder == record.cend(): ++player.
FbNextPlayer ==
    /\ fbPc = "inner"
    /\ rIdx > Len(record)
    /\ fbPc' = "outer"
    /\ pIdx' = pIdx + 1
    /\ UNCHANGED <<rIdx, tried, passedPairs, fbResult>>
    /\ UNCHANGED <<auxVars, pcmVars, inputVars, mainVars, ltVars>>

\* loopback_test(duration, sampling_rate, recorder->c_str(), player->c_str())
FbTry ==
    /\ fbPc = "inner"
    /\ rIdx <= Len(record)
    /\ fbPc' = "call"
    /\ tried' = Append(tried, <<record[rIdx], playback[pIdx]>>)
    /\ CallLoopbackTest(record[rIdx], playback[pIdx])
    /\ UNCHANGED <<pIdx, rIdx, passedPairs, fbResult>>
    /\ UNCHANGED <<auxVars, pcmVars, inputVars, mainVars>>

\* if (!error) return 0;
FbTryPassed ==
    /\ fbPc = "call"
    /\ ltPc = "returned"
    /\ ltResult = "pass"
    /\ fbPc' = "done"
    /\ fbResult' = "pass"
    /\ passedPairs' = passedPairs \cup {<<ltCapture, ltPlayback>>}
    /\ ltPc' = "idle"
    /\ UNCHANGED <<pIdx, rIdx, tried>>
    /\ UNCHANGED <<ltCapture, ltPlayback, attempt, recorder, player, recPc, dominant,
                   verdicts, ltResult, devErr, errAttempt, opened, prevHandles, openHandles>>
    /\ UNCHANGED <<recUsers, concurrentUse, playUsers>>
    /\ UNCHANGED <<auxVars, pcmVars, inputVars, mainVars>>

\* loopback_test returned 1, or threw AlsaError which the catch clause logs:
\* ++recorder.
FbTryFailed ==
    /\ fbPc = "call"
    /\ ltPc = "returned"
    /\ ltResult \in {"fail", "raised"}
    /\ fbPc' = "inner"
    /\ rIdx' = rIdx + 1
    /\ ltPc' = "idle"
    /\ UNCHANGED <<pIdx, tried, passedPairs, fbResult>>
    /\ UNCHANGED <<ltCapture, ltPlayback, attempt, recorder, player, recPc, dominant,
                   verdicts, ltResult, devErr, errAttempt, opened, prevHandles, openHandles>>
    /\ UNCHANGED <<recUsers, concurrentUse, playUsers>>
    /\ UNCHANGED <<auxVars, pcmVars, inputVars, mainVars>>

fallback_loopback ==
    \/ FbExhausted \/ FbSkipExcluded \/ FbEnterInner \/ FbNextPlayer
    \/ FbTry \/ FbTryPassed \/ FbTryFailed

\* ------------------------------------------------------------------- main
\* int error = scenarios["loopback"](duration, sampling_rate, capture_pcm, playback_pcm);
MainCallPrimary ==
    /\ mainPc = "start"
    /\ mainPc' = "primary"
    /\ CallLoopbackTest(capture_pcm, playback_pcm)
    /\ UNCHANGED <<exitStatus, primaryResult, primaryDevErr, fallbackRan>>
    /\ UNCHANGED <<auxVars, pcmVars, inputVars, fbVars>>

\* if (!error) return 0;
MainPrimaryPassed ==
    /\ mainPc = "primary"
    /\ ltPc = "returned"
    /\ ltResult = "pass"
    /\ mainPc' = "exited"
    /\ exitStatus' = "exit0"
    /\ primaryResult' = "pass"
    /\ primaryDevErr' = devErr
    /\ ltPc' = "idle"
    /\ UNCHANGED fallbackRan
    /\ UNCHANGED <<ltCapture, ltPlayback, attempt, recorder, player, recPc, dominant,
                   verdicts, ltResult, devErr, errAttempt, opened, prevHandles, openHandles>>
    /\ UNCHANGED <<recUsers, concurrentUse, playUsers>>
    /\ UNCHANGED <<auxVars, pcmVars, inputVars, fbVars>>

\* return scenarios["fallback"](duration, sampling_rate, nullptr, nullptr);
MainPrimaryFailed ==
    /\ mainPc = "primary"
    /\ ltPc = "returned"
    /\ ltResult = "fail"
    /\ mainPc' = "fallback"
    /\ primaryResult' = "fail"
    /\ primaryDevErr' = devErr
    /\ fallbackRan' = TRUE
    /\ ltPc' = "idle"
    /\ CallFallback
    /\ UNCHANGED exitStatus
    /\ UNCHANGED <<ltCapture, ltPlayback, attempt, recorder, player, recPc, dominant,
                   verdicts, ltResult, devErr, errAttempt, opened, prevHandles, openHandles>>
    /\ UNCHANGED <<recUsers, concurrentUse, playUsers>>
    /\ UNCHANGED <<auxVars, pcmVars, inputVars>>

\* The primary call threw AlsaError and main has no handler: std::terminate.
MainPrimaryRaised ==
    /\ mainPc = "primary"
    /\ ltPc = "returned"
    /\ ltResult = "raised"
    /\ mainPc' = "exited"
    /\ exitStatus' = "terminate"
    /\ primaryResult' = "raised"
    /\ primaryDevErr' = devErr
    /\ ltPc' = "idle"
    /\ UNCHANGED fallbackRan
    /\ UNCHANGED <<ltCapture, ltPlayback, attempt, recorder, player, recPc, dominant,
                   verdicts, ltResult, devErr, errAttempt, opened, prevHandles, openHandles>>
    /\ UNCHANGED <<recUsers, concurrentUse, playUsers>>
    /\ UNCHANGED <<auxVars, pcmVars, inputVars, fbVars>>

\* main returns what fallback_loopback returned.
MainFallbackReturned ==
    /\ mainPc = "fallback"
    /\ fbPc = "done"
    /\ mainPc' = "exited"
    /\ exitStatus' = IF fbResult = "pass" THEN "exit0" ELSE "exit1"
    /\ UNCHANGED <<primaryResult, primaryDevErr, fallbackRan>>
    /\ UNCHANGED <<auxVars, pcmVars, inputVars, fbVars, ltVars>>

main ==
    \/ MainCallPrimary \/ MainPrimaryPassed \/ MainPrimaryFailed
    \/ MainPrimaryRaised \/ MainFallbackReturned

\* ------------------------------------------------- Pcm handle lifecycle
\* enum class Mode {playback, capture}
PcmModes == {"playback", "capture"}

\* What reading the member "mode" can yield in ~Pcm.  The constructor's parameter
\* "mode" shadows the member and the member is never assigned, so its value is
\* indeterminate: one of the enumerators, or any other value.
ModeMemberValues == {"playback", "capture", "other"}

\* Pcm::~Pcm: switch (mode) { playback: drain; capture: drop; } then close.
DtorCalls(m) ==
    (CASE m = "playback" -> <<"snd_pcm_drain">>
       [] m = "capture" -> <<"snd_pcm_drop">>
       [] OTHER -> <<>>) \o <<"snd_pcm_close">>

NoPcm == [dev |-> "", openedAs |-> "none"]

\* Pcm(device_name, mode): snd_pcm_open succeeded.
PcmConstruct ==
    /\ pcmPc \in {"none", "destroyed"}
    /\ pcmCycles < MaxCycles
    /\ \E dev \in PcmArgs, mode \in PcmModes :
          pcm' = [dev |-> dev, openedAs |-> mode]
    /\ pcmPc' = "open"
    /\ pcmCalls' = <<"snd_pcm_open">>
    /\ pcmCycles' = pcmCycles + 1
    /\ UNCHANGED pcmLog
    /\ UNCHANGED <<auxVars, inputVars, mainVars, fbVars, ltVars>>

\* snd_pcm_open failed: the constructor throws, no object exists.
PcmConstructFail ==
    /\ pcmPc \in {"none", "destroyed"}
    /\ pcmCycles < MaxCycles
    /\ pcmPc' = "none"
    /\ pcm' = NoPcm
    /\ pcmCalls' = <<>>
    /\ pcmCycles' = pcmCycles + 1
    /\ UNCHANGED pcmLog
    /\ UNCHANGED <<auxVars, inputVars, mainVars, fbVars, ltVars>>

\* set_params(desired_rate) succeeded.
PcmSetParams ==
    /\ pcmPc = "open"
    /\ pcmPc' = "configured"
    /\ pcmCalls' = Append(pcmCalls, "snd_pcm_hw_params")
    /\ UNCHANGED <<pcm, pcmLog, pcmCycles>>
    /\ UNCHANGED <<auxVars, inputVars, mainVars, fbVars, ltVars>>

\* set_params throws AlsaError: the object's scope is left.
PcmSetParamsFail ==
    /\ pcmPc = "open"
    /\ pcmPc' = "unwinding"
    /\ UNCHANGED <<pcm, pcmCalls, pcmLog, pcmCycles>>
    /\ UNCHANGED <<auxVars, inputVars, mainVars, fbVars, ltVars>>

\* A player runs sine() (and, in loopback_test, drain()); a recorder runs record().
PcmUse ==
    /\ pcmPc = "configured"
    /\ pcmPc' = "used"
    /\ \/ /\ pcm.openedAs = "playback"
          /\ \E explicitDrain \in BOOLEAN :
                pcmCalls' = pcmCalls \o <<"snd_pcm_writei", "snd_pcm_start">>
                            \o (IF explicitDrain THEN <<"snd_pcm_drain">> ELSE <<>>)
       \/ /\ pcm.openedAs = "capture"
          /\ pcmCalls' = pcmCalls \o <<"snd_pcm_start", "snd_pcm_readi">>
    /\ UNCHANGED <<pcm, pcmLog, pcmCycles>>
    /\ UNCHANGED <<auxVars, inputVars, mainVars, fbVars, ltVars>>

\* ~Pcm at the end of the object's scope.
PcmDestroy ==
    /\ pcmPc \in {"used", "unwinding"}
    /\ pcmPc' = "destroyed"
    /\ \E m \in ModeMemberValues :
          pcmLog' = Append(pcmLog, [openedAs |-> pcm.openedAs, dtor |-> DtorCalls(m)])
    /\ UNCHANGED <<pcm, pcmCalls, pcmCycles>>
    /\ UNCHANGED <<auxVars, inputVars, mainVars, fbVars, ltVars>>

\* ------------------------------------------------- Pcm::sine, one frame
Encodings == {"int16", "uint16", "float"}

\* std::numeric_limits<storage_type>::min(), specialised to -1.0f for float
min_val(enc) ==
    CASE enc = "int16" -> -32768
      [] enc = "uint16" -> 0
      [] enc = "float" -> -1

\* std::numeric_limits<storage_type>::max(), specialised to 1.0f for float
max_val(enc) ==
    CASE enc = "int16" -> 32767
      [] enc = "uint16" -> 65535
      [] enc = "float" -> 1

\* Sample values before the volume step are fractions over ToneDen, after it
\* fractions over SampleDen.
ToneDen == 2 * SineSteps
SampleDen == ToneDen * AmpSteps

\* target_range * ((sample + 1.0f)/2.0f) + float(min_val()), as a numerator over ToneDen
ToTargetRange(enc, sn) ==
    (max_val(enc) - min_val(enc)) * (sn + SineSteps) + min_val(enc) * ToneDen

\* if (sample > float(max_val())) sample = max_val();
\* else if (sample < float(min_val())) sample = min_val();
Saturate(enc, num) ==
    IF num > max_val(enc) * ToneDen THEN max_val(enc) * ToneDen
    ELSE IF num < min_val(enc) * ToneDen THEN min_val(enc) * ToneDen
    ELSE num

\* Mutant: the volume is added to the gain instead of replacing it.
SetVolumeBoost(num, amp) == num * (amp + AmpSteps)

\* sample *= amplitude, as a numerator over SampleDen
SetVolume(num, amp) == num * amp

\* Conversion of the double to an integer storage_type: the fraction is dropped.
Truncate(num) ==
    IF num >= 0 THEN num \div SampleDen ELSE -((-num) \div SampleDen)

\* What an integer storage_type holds after an assignment that does not fit: the
\* conversion is undefined, the build decides between wrapping and clamping.
OutOfRangeStores(enc, q) ==
    {min_val(enc), max_val(enc),
     ((q - min_val(enc)) % 65536) + min_val(enc)}

\* buff[i] = sample: the values the assignment can leave in buff[i].
Stores(enc, num) ==
    IF enc = "float" THEN {num}
    ELSE IF Truncate(num) >= min_val(enc) /\ Truncate(num) <= max_val(enc)
         THEN {Truncate(num)}
         ELSE OutOfRangeStores(enc, Truncate(num))

\* The value of sample when it is assigned to buff[i], as a numerator over SampleDen.
ScaledSample(enc, sn, amp) == SetVolume(Saturate(enc, ToTargetRange(enc, sn)), amp)

\* The body of the inner loop for one frame: buff[i] = sample; buff[i+1] = buff[i].
SineFrame ==
    /\ smPc = "input"
    /\ \E v \in Stores(smEnc, ScaledSample(smEnc, smSin, smAmp)) :
          smFrame' = <<v, v>>
    /\ smPc' = "stored"
    /\ UNCHANGED <<smEnc, smSin, smAmp>>
    /\ UNCHANGED <<alsaVars, sineVars, recordVars, dspVars, cliVars, memVars, toolVars>>

\* ------------------------------------------------- Pcm::sine, the write loop
\* Rates and period sizes the device can have negotiated in set_params.
Rates == {44100, 48000}
Periods == {4410, 8192, 12000}

\* What snd_pcm_writei can report: the period was taken, an underrun (-EPIPE),
\* or anything else (a short count, another negative code).
WriteResults == {"ok", "EPIPE", "other"}

\* Mutant: the loop runs once more when t has reached the end exactly.
SineLoopContinuesInclusive(t, rate, dur) == t <= rate * dur

\* while (t < float(this->rate) * duration)
SineLoopContinues(t, rate, dur) == t < rate * dur

\* Mutant: an underrun is treated as a device error.
OnWriteResultFatal(res) == [prepare |-> FALSE, raise |-> res = "EPIPE"]

\* if (res == -EPIPE) { ...; snd_pcm_prepare(this->pcm_handle); }
OnWriteResult(res) == [prepare |-> res = "EPIPE", raise |-> FALSE]

\* The stream's state after the write and the handling of its result.
StreamAfter(res, prepared, before) ==
    IF res = "EPIPE" THEN (IF prepared THEN "prepared" ELSE "xrun")
    ELSE IF res = "ok" THEN "running"
    ELSE before

\* Entering sine(): buff allocated, t = 0.
SineEnter ==
    /\ snPc = "idle"
    /\ snPc' = "loop"
    /\ snT' = 0
    /\ UNCHANGED <<snRate, snPeriod, snDur, snFrames, snWrites, snUnderruns,
                   snPrepares, snStream, snRaised>>
    /\ UNCHANGED <<alsaVars, sampleVars, recordVars, dspVars, cliVars, memVars, toolVars>>

\* One iteration: a period is filled and written, the result handled, t advanced.
SineWritePeriod ==
    /\ snPc = "loop"
    /\ SineLoopContinues(snT, snRate, snDur)
    /\ \E res \in WriteResults :
          LET h == OnWriteResult(res) IN
          /\ snFrames' = snFrames + snPeriod
          /\ snWrites' = snWrites + 1
          /\ snUnderruns' = snUnderruns + (IF res = "EPIPE" THEN 1 ELSE 0)
          /\ snPrepares' = snPrepares + (IF h.prepare THEN 1 ELSE 0)
          /\ snStream' = StreamAfter(res, h.prepare, snStream)
          /\ IF h.raise
             THEN snRaised' = TRUE /\ snPc' = "done" /\ UNCHANGED snT
             ELSE snT' = snT + snPeriod /\ UNCHANGED <<snRaised, snPc>>
    /\ UNCHANGED <<snRate, snPeriod, snDur>>
    /\ UNCHANGED <<alsaVars, sampleVars, recordVars, dspVars, cliVars, memVars, toolVars>>

\* The loop is left: snd_pcm_start, delete[] buff, return.
SineReturn ==
    /\ snPc = "loop"
    /\ ~SineLoopContinues(snT, snRate, snDur)
    /\ snPc' = "done"
    /\ snStream' = IF snStream = "prepared" THEN "running" ELSE snStream
    /\ UNCHANGED <<snRate, snPeriod, snDur, snT, snFrames, snWrites, snUnderruns,
                   snPrepares, snRaised>>
    /\ UNCHANGED <<alsaVars, sampleVars, recordVars, dspVars, cliVars, memVars, toolVars>>

\* ------------------------------------------------------------ Pcm::record
Max2(a, b) == IF a >= b THEN a ELSE b
Min2(a, b) == IF a <= b THEN a ELSE b

\* Frames one snd_pcm_readi(handle, ptr, period) can have delivered: all of the
\* period, or fewer when it returns a short count or an error (-EPIPE on overrun).
FramesDelivered(period) == 0..period

\* if (buff_size >= this->period * 2)
ReadsIntoCaller(left, period) == left >= period * 2

\* Entering record(): local_buff allocated, snd_pcm_start.
RecordEnter ==
    /\ rcPc = "idle"
    /\ rcPc' = "loop"
    /\ rcLeft' = rcN
    /\ rcPos' = 0
    /\ UNCHANGED <<rcPeriod, rcN, rcCaptured, rcGarbage, rcHigh>>
    /\ UNCHANGED <<alsaVars, sampleVars, sineVars, dspVars, cliVars, memVars, toolVars>>

\* A whole period is read into the caller's buffer; res is not looked at.
RecordWholePeriod ==
    /\ rcPc = "loop"
    /\ rcLeft > 0
    /\ ReadsIntoCaller(rcLeft, rcPeriod)
    /\ \E got \in FramesDelivered(rcPeriod) :
          /\ rcCaptured' = rcCaptured + 2 * got
          /\ rcHigh' = IF got > 0 THEN Max2(rcHigh, rcPos + 2 * got) ELSE rcHigh
    /\ rcLeft' = rcLeft - rcPeriod * 2
    /\ rcPos' = rcPos + rcPeriod * 2
    /\ UNCHANGED <<rcPc, rcPeriod, rcN, rcGarbage>>
    /\ UNCHANGED <<alsaVars, sampleVars, sineVars, dspVars, cliVars, memVars, toolVars>>

\* The rest is shorter than a period: a period is read into local_buff and the
\* first buff_size samples of local_buff are copied; res is not looked at.
RecordLastPart ==
    /\ rcPc = "loop"
    /\ rcLeft > 0
    /\ ~ReadsIntoCaller(rcLeft, rcPeriod)
    /\ \E got \in FramesDelivered(rcPeriod) :
          /\ rcCaptured' = rcCaptured + Min2(rcLeft, 2 * got)
          /\ rcGarbage' = rcGarbage + (rcLeft - Min2(rcLeft, 2 * got))
    /\ rcHigh' = Max2(rcHigh, rcPos + rcLeft)
    /\ rcLeft' = 0
    /\ UNCHANGED <<rcPc, rcPeriod, rcN, rcPos>>
    /\ UNCHANGED <<alsaVars, sampleVars, sineVars, dspVars, cliVars, memVars, toolVars>>

\* while (buff_size > 0) is left: delete[] local_buff, return.
RecordReturn ==
    /\ rcPc = "loop"
    /\ rcLeft <= 0
    /\ rcPc' = "done"
    /\ UNCHANGED <<rcPeriod, rcN, rcLeft, rcPos, rcCaptured, rcGarbage, rcHigh>>
    /\ UNCHANGED <<alsaVars, sampleVars, sineVars, dspVars, cliVars, memVars, toolVars>>

\* ---------------------------------------------------------- dominant_freq
\* The rate loopback_test passes: sampling_rate * 2.
StereoRates == {88200, 96000}

\* Mutant: the mirrored half of the spectrum is searched too.
SearchedBinsAll(n) == n

\* std::vector<float>(buffsize/2): drop mirrored freqs
SearchedBins(n) == n \div 2

MaxElementLast(mag, k) ==
    IF k = 0 THEN -1
    ELSE CHOOSE i \in 0..(k - 1) :
            /\ \A j \in 0..(k - 1) : mag[j + 1] <= mag[i + 1]
            /\ \A j \in (i + 1)..(k - 1) : mag[j + 1] < mag[i + 1]

\* std::max_element over the first k magnitudes: the index of the first largest
\* one, -1 for end() when there is none.
MaxElement(mag, k) ==
    IF k = 0 THEN -1
    ELSE CHOOSE i \in 0..(k - 1) :
            /\ \A j \in 0..(k - 1) : mag[j + 1] <= mag[i + 1]
            /\ \A j \in 0..(i - 1) : mag[j + 1] < mag[i + 1]

\* float(std::distance(freqs.begin(), it)) / (float(buffsize) / rate), or 0.0f
FreqOfBin(i, n, rate) ==
    IF i = -1 THEN [num |-> 0, den |-> 1] ELSE [num |-> i * rate, den |-> n]

\* Sequences of length n over the magnitudes 0 .. MaxMagnitude.
Spectra(n) == [1..n -> 0..MaxMagnitude]

\* dominant_freq(buff, buffsize, rate)
DominantFreq ==
    /\ dfPc = "input"
    /\ dfResult' = FreqOfBin(MaxElement(dfMag, SearchedBins(dfN)), dfN, dfRate)
    /\ dfPc' = "done"
    /\ UNCHANGED <<dfN, dfRate, dfMag, dfVerdict>>
    /\ UNCHANGED <<alsaVars, sampleVars, sineVars, recordVars, ffVars, cliVars, memVars, toolVars>>

\* loopback_test's verdict on the frequency f = num/den that dominant_freq returned
\* for a buffer of n samples at the given rate.  buffsize = ceil(rate * duration)
\* makes duration at most n / rate; with duration = n / rate the comparison
\*     abs(test_freq - f) <= 5 / duration + 1
\* is, times den * n,  |test_freq * den - num| * n <= (5 * rate + n) * den.
\* Where the unqualified abs resolves to ::abs(int) the difference is truncated
\* towards zero first.
AttemptVerdict(f, n, rate, intAbs) ==
    IF ~(f.num > 0) THEN "fail"
    ELSE LET diff == Abs(test_freq * f.den - f.num)
             dev == IF intAbs THEN (diff \div f.den) * f.den ELSE diff
         IN  IF dev * n <= (EpsNum * rate + EpsAdd * n) * f.den THEN "pass" ELSE "fail"

\* if (dominant > 0.0f) { ... if (deviation <= epsilon) return 0; }  on the result
DfJudge ==
    /\ dfPc = "done"
    /\ \E intAbs \in BOOLEAN : dfVerdict' = AttemptVerdict(dfResult, dfN, dfRate, intAbs)
    /\ dfPc' = "judged"
    /\ UNCHANGED <<dfN, dfRate, dfMag, dfResult>>
    /\ UNCHANGED <<alsaVars, sampleVars, sineVars, recordVars, ffVars, cliVars, memVars, toolVars>>

\* ----------------------------------------------------- buffer size and fft
\* -d values, in sixteenths of a second (std::stof accepts fractions)
DurSixteenths == {1, 4, 8, 16, 24, 32, 48, 64}

\* The rates of all_formats.
SamplingRates == {44100, 48000}

\* ceil(a / b) for b > 0
CeilDiv(a, b) == (a + b - 1) \div b

\* static_cast<int>(ceil(float(sampling_rate * 2) * duration))
BuffSize(rate, dur16) == CeilDiv(rate * 2 * dur16, 16)

RECURSIVE IsPowerOfTwo(_)
IsPowerOfTwo(n) ==
    IF n <= 0 THEN FALSE
    ELSE IF n = 1 THEN TRUE
    ELSE n % 2 = 0 /\ IsPowerOfTwo(n \div 2)

\* std::vector<storage_type> buff(buffsize), later handed to dominant_freq and fft.
LtAllocate ==
    /\ ffPc = "input"
    /\ ffBuffsize' = BuffSize(ffRate, ffDur)
    /\ ffLen' = BuffSize(ffRate, ffDur)
    /\ ffDepth' = 0
    /\ ffPc' = "fft"
    /\ UNCHANGED <<ffRate, ffDur, ffOddSplit>>
    /\ UNCHANGED <<alsaVars, sampleVars, sineVars, recordVars, dfVars, cliVars, memVars, toolVars>>

\* fft on N > 1 elements: even and odd take N/2 elements each and are recursed on.
FftSplit ==
    /\ ffPc = "fft"
    /\ ffLen > 1
    /\ ffLen' = ffLen \div 2
    /\ ffDepth' = ffDepth + 1
    /\ ffOddSplit' = (ffOddSplit \/ ffLen % 2 = 1)
    /\ UNCHANGED <<ffPc, ffRate, ffDur, ffBuffsize>>
    /\ UNCHANGED <<alsaVars, sampleVars, sineVars, recordVars, dfVars, cliVars, memVars, toolVars>>

\* if (N <= 1) return;
FftLeaf ==
    /\ ffPc = "fft"
    /\ ffLen <= 1
    /\ ffPc' = "done"
    /\ UNCHANGED <<ffRate, ffDur, ffBuffsize, ffLen, ffDepth, ffOddSplit>>
    /\ UNCHANGED <<alsaVars, sampleVars, sineVars, recordVars, dfVars, cliVars, memVars, toolVars>>

\* ------------------------------------------------- main, scenario dispatch
\* The keys of all_formats.
AllFormats == {"float_44100", "float_48000", "int16_44100", "int16_48000",
               "uint16_44100", "uint16_48000"}

\* The word after --format on the command line: none, a known format, another word.
FormatOpts == {""} \cup AllFormats \cup {"int8_8000"}

\* args[1]: the names main compares it with, the third key of the scenarios map,
\* and a word that is neither.
ScenarioArgs == {"playback", "loopback", "list-formats", "list-devices", "fallback",
                 "record"}

\* The names of the if / else if chain of main.
Dispatched == {"playback", "loopback", "list-formats", "list-devices"}

\* The keys main stores in scenarios, whatever the sample format.
ScenarioKeys == {"playback", "loopback", "fallback"}

\* if (it == all_formats.end()) { ...; return 1; }
FormatKnown(opt) == opt = "" \/ opt \in AllFormats

\* if (scenarios.find(args[1]) == scenarios.end())
ScenarioFound(name, keys) == name \in keys

\* std::string playback_pcm{"default"}; replaced by the word after --playback-pcm
PcmOption(opt) == IF opt = "" THEN "default" ELSE opt

\* The device playback_test opens its stream on when main passes it playback_pcm:
\* auto player = Alsa::Pcm<storage_type>(); with
\* Pcm() : Pcm{"default", Mode::playback} {}
PlaybackTestDevice(pcmArg) == "default"

CliExit(status) ==
    /\ clPc' = "exited"
    /\ clExit' = status

\* The --format option is parsed and the scenarios map is filled.
CliParseFormat ==
    /\ clPc = "start"
    /\ IF FormatKnown(clFormatOpt)
       THEN clPc' = "parsed" /\ clScenarios' = ScenarioKeys /\ UNCHANGED clExit
       ELSE CliExit("exit1") /\ UNCHANGED clScenarios
    /\ UNCHANGED <<clScenario, clFormatOpt, clPlaybackOpt, clPlaybackPcm, clRan, clOpened,
                 clOutcome>>
    /\ UNCHANGED <<alsaVars, sampleVars, sineVars, recordVars, dspVars, memVars, toolVars>>

\* if (args.size() < 2) { ...; return 1; }
CliMissingScenario ==
    /\ clPc = "parsed"
    /\ clScenario = ""
    /\ CliExit("exit1")
    /\ UNCHANGED <<clScenario, clFormatOpt, clPlaybackOpt, clScenarios, clPlaybackPcm, clRan,
                 clOpened, clOutcome>>
    /\ UNCHANGED <<alsaVars, sampleVars, sineVars, recordVars, dspVars, memVars, toolVars>>

\* return scenarios["playback"](...): playback_test returns 0 or an AlsaError
\* leaves it, which main does not catch.
CliPlayback ==
    /\ clPc = "parsed"
    /\ clScenario = "playback"
    /\ clRan' = Append(clRan, "playback_test")
    /\ \E out \in {"pass", "raised"} :
          /\ clOutcome' = out
          /\ CliExit(IF out = "pass" THEN "exit0" ELSE "terminate")
    /\ clPlaybackPcm' = PcmOption(clPlaybackOpt)
    /\ clOpened' = PlaybackTestDevice(clPlaybackPcm')
    /\ UNCHANGED <<clScenario, clFormatOpt, clPlaybackOpt, clScenarios>>
    /\ UNCHANGED <<alsaVars, sampleVars, sineVars, recordVars, dspVars, memVars, toolVars>>

\* The loopback branch: loopback_test, and fallback_loopback when it returned 1.
CliLoopback ==
    /\ clPc = "parsed"
    /\ clScenario = "loopback"
    /\ \E first \in {"pass", "fail", "raised"}, second \in {"pass", "fail"} :
          IF first = "fail"
          THEN /\ clRan' = clRan \o <<"loopback_test", "fallback_loopback">>
               /\ clOutcome' = second
               /\ CliExit(IF second = "pass" THEN "exit0" ELSE "exit1")
          ELSE /\ clRan' = Append(clRan, "loopback_test")
               /\ clOutcome' = first
               /\ CliExit(IF first = "pass" THEN "exit0" ELSE "terminate")
    /\ clPlaybackPcm' = PcmOption(clPlaybackOpt)
    /\ UNCHANGED <<clScenario, clFormatOpt, clPlaybackOpt, clScenarios, clOpened>>
    /\ UNCHANGED <<alsaVars, sampleVars, sineVars, recordVars, dspVars, memVars, toolVars>>

\* return list_formats(); / return list_devices(); both return 0.
CliList ==
    /\ clPc = "parsed"
    /\ clScenario \in {"list-formats", "list-devices"}
    /\ clRan' = Append(clRan, IF clScenario = "list-formats" THEN "list_formats"
                                                            ELSE "list_devices")
    /\ clOutcome' = "pass"
    /\ CliExit("exit0")
    /\ clPlaybackPcm' = PcmOption(clPlaybackOpt)
    /\ UNCHANGED <<clScenario, clFormatOpt, clPlaybackOpt, clScenarios, clOpened>>
    /\ UNCHANGED <<alsaVars, sampleVars, sineVars, recordVars, dspVars, memVars, toolVars>>

\* No branch of the chain matched and the name is not a key of scenarios.
CliNotFound ==
    /\ clPc = "parsed"
    /\ clScenario # ""
    /\ clScenario \notin Dispatched
    /\ ~ScenarioFound(clScenario, clScenarios)
    /\ CliExit("exit1")
    /\ clPlaybackPcm' = PcmOption(clPlaybackOpt)
    /\ UNCHANGED <<clScenario, clFormatOpt, clPlaybackOpt, clScenarios, clRan, clOpened,
                 clOutcome>>
    /\ UNCHANGED <<alsaVars, sampleVars, sineVars, recordVars, dspVars, memVars, toolVars>>

\* No branch of the chain matched and the name is a key of scenarios: control
\* reaches the closing brace of main, which returns 0.
CliFallOffEnd ==
    /\ clPc = "parsed"
    /\ clScenario # ""
    /\ clScenario \notin Dispatched
    /\ ScenarioFound(clScenario, clScenarios)
    /\ CliExit("exit0")
    /\ clPlaybackPcm' = PcmOption(clPlaybackOpt)
    /\ UNCHANGED <<clScenario, clFormatOpt, clPlaybackOpt, clScenarios, clRan, clOpened,
                 clOutcome>>
    /\ UNCHANGED <<alsaVars, sampleVars, sineVars, recordVars, dspVars, memVars, toolVars>>

\* ------------------------------------------- threaded_memtest, thread start-up
\* The threads main can create, in creation order; one more than -n allows.
ThreadPool == 1..(MaxThreads + 1)

\* The indexes thread_id can take.
SlotIds == 0..MaxThreads

\* Mutant: main does not wait for the new thread before it goes on.
MainGoesOnAtOnce == TRUE

\* while (!mmap_done) { pthread_cond_wait(&mmap_cond,&mmap_mutex); } is left
MainMayGoOn == mmap_done = 1

\* pthread_cond_signal / pthread_cond_broadcast seen from main: it is woken when
\* it is blocked in pthread_cond_wait on that condition, nothing happens otherwise.
WakeMain(blocked, woken) == IF mtPc = blocked THEN woken ELSE mtPc

\* while (created_threads < num_threads)
MemLoopTest ==
    /\ mtPc = "test"
    /\ mtPc' = IF created_threads < num_threads THEN "reset"
               ELSE IF parallel THEN "initWait" ELSE "begin"
    /\ UNCHANGED <<num_threads, parallel, runtime, created_threads, mmap_done,
                   live_threads, started, done, sigint, timerI, rv, joined,
                   running_threads, ctHolder, testHolder, finishHolder, thPc, thId,
                   thTmp, handleSlots, regionWriters, counterWriters, unmapped,
                   staleAccess, corrupted>>
    /\ UNCHANGED alsaAll

\* pthread_mutex_lock(&mmap_mutex); mmap_done=0;
MemReset ==
    /\ mtPc = "reset"
    /\ mmap_done' = 0
    /\ mtPc' = "create"
    /\ UNCHANGED <<num_threads, parallel, runtime, created_threads, live_threads,
                   started, done, sigint, timerI, rv, joined, running_threads,
                   ctHolder, testHolder, finishHolder, thPc, thId, thTmp,
                   handleSlots, regionWriters, counterWriters, unmapped,
                   staleAccess, corrupted>>
    /\ UNCHANGED alsaAll

\* pthread_create(&threads[created_threads], NULL, mem_twiddler, ...)
MemCreate ==
    /\ mtPc = "create"
    /\ Len(handleSlots) < MaxThreads + 1
    /\ handleSlots' = Append(handleSlots, created_threads)
    /\ thPc' = [thPc EXCEPT ![Len(handleSlots) + 1] = "start"]
    /\ mtPc' = "wait"
    /\ UNCHANGED <<num_threads, parallel, runtime, created_threads, mmap_done,
                   live_threads, started, done, sigint, timerI, rv, joined,
                   running_threads, ctHolder, testHolder, finishHolder, thId,
                   thTmp, regionWriters, counterWriters, unmapped, staleAccess,
                   corrupted>>
    /\ UNCHANGED alsaAll

\* while (!mmap_done): the test. When it fails main goes on to
\* pthread_mutex_unlock(&mmap_mutex) and the next iteration, else it calls
\* pthread_cond_wait.
MemWaitDone ==
    /\ mtPc = "wait"
    /\ mtPc' = IF MainMayGoOn THEN "test" ELSE "callMmapWait"
    /\ UNCHANGED <<num_threads, parallel, runtime, created_threads, mmap_done,
                   live_threads, started, done, sigint, timerI, rv, joined,
                   running_threads, ctHolder, testHolder, finishHolder, thPc, thId,
                   thTmp, handleSlots, regionWriters, counterWriters, unmapped,
                   staleAccess, corrupted>>
    /\ UNCHANGED alsaAll

\* if (parallel) ... while (live_threads < num_threads): the test
MemInitWait ==
    /\ mtPc = "initWait"
    /\ mtPc' = IF live_threads >= num_threads THEN "begin" ELSE "callInitWait"
    /\ UNCHANGED <<num_threads, parallel, runtime, created_threads, mmap_done,
                   live_threads, started, done, sigint, timerI, rv, joined,
                   running_threads, ctHolder, testHolder, finishHolder, thPc, thId,
                   thTmp, handleSlots, regionWriters, counterWriters, unmapped,
                   staleAccess, corrupted>>
    /\ UNCHANGED alsaAll

\* pthread_cond_wait(&mmap_cond, ...) / pthread_cond_wait(&init_cond, ...):
\* main blocks until the condition is signalled.
MemCondWait ==
    /\ mtPc \in {"callMmapWait", "callInitWait"}
    /\ mtPc' = IF mtPc = "callMmapWait" THEN "sleepMmap" ELSE "sleepInit"
    /\ UNCHANGED <<num_threads, parallel, runtime, created_threads, mmap_done,
                   live_threads, started, done, sigint, timerI, rv, joined,
                   running_threads, ctHolder, testHolder, finishHolder, thPc, thId,
                   thTmp, handleSlots, regionWriters, counterWriters, unmapped,
                   staleAccess, corrupted>>
    /\ UNCHANGED alsaAll

\* gettimeofday(&start,NULL); pthread_cond_broadcast(&test_start); sigaction(SIGINT, ...)
MemBegin ==
    /\ mtPc = "begin"
    /\ started' = TRUE
    /\ thPc' = [k \in ThreadPool |-> IF thPc[k] = "sleepStart" THEN "waitStart" ELSE thPc[k]]
    /\ mtPc' = "testing"
    /\ UNCHANGED <<num_threads, parallel, runtime, created_threads, mmap_done,
                   live_threads, done, sigint, timerI, rv, joined, running_threads,
                   ctHolder, testHolder, finishHolder, thId, thTmp, handleSlots,
                   regionWriters, counterWriters, unmapped, staleAccess, corrupted>>
    /\ UNCHANGED alsaAll

\* while (!done && (i<runtime)) { if (sleep(1) == 0) i++; ... }
MemTick ==
    /\ mtPc = "testing"
    /\ done = 0
    /\ timerI < runtime
    /\ timerI' = timerI + 1
    /\ UNCHANGED <<mtPc, num_threads, parallel, runtime, created_threads,
                   mmap_done, live_threads, started, done, sigint, rv, joined,
                   running_threads, ctHolder, testHolder, finishHolder, thPc, thId,
                   thTmp, handleSlots, regionWriters, counterWriters, unmapped,
                   staleAccess, corrupted>>
    /\ UNCHANGED alsaAll

\* SIGINT while main is in the timer loop: int_handler sets done=1 and the
\* interrupted sleep(1) returns non-zero.
MemSigint ==
    /\ mtPc = "testing"
    /\ ~sigint
    /\ sigint' = TRUE
    /\ done' = 1
    /\ UNCHANGED <<mtPc, num_threads, parallel, runtime, created_threads,
                   mmap_done, live_threads, started, timerI, rv, joined,
                   running_threads, ctHolder, testHolder, finishHolder, thPc, thId,
                   thTmp, handleSlots, regionWriters, counterWriters, unmapped,
                   staleAccess, corrupted>>
    /\ UNCHANGED alsaAll

\* The timer loop is left: if (i != runtime) rv=1; done=1;
MemTimerEnd ==
    /\ mtPc = "testing"
    /\ (done # 0 \/ timerI >= runtime)
    /\ rv' = IF timerI # runtime THEN 1 ELSE 0
    /\ done' = 1
    /\ mtPc' = "join"
    /\ UNCHANGED <<num_threads, parallel, runtime, created_threads, mmap_done,
                   live_threads, started, sigint, timerI, joined, running_threads,
                   ctHolder, testHolder, finishHolder, thPc, thId, thTmp,
                   handleSlots, regionWriters, counterWriters, unmapped,
                   staleAccess, corrupted>>
    /\ UNCHANGED alsaAll

\* while (live_threads) { pthread_join(threads[live_threads-1],NULL); live_threads--; }
MemJoin ==
    /\ mtPc = "join"
    /\ live_threads > 0
    /\ \E a \in 1..Len(handleSlots) :
          handleSlots[a] = live_threads - 1 /\ thPc[a] = "returned"
    /\ joined' = Append(joined, live_threads - 1)
    /\ live_threads' = live_threads - 1
    /\ UNCHANGED <<mtPc, num_threads, parallel, runtime, created_threads,
                   mmap_done, started, done, sigint, timerI, rv, running_threads,
                   ctHolder, testHolder, finishHolder, thPc, thId, thTmp,
                   handleSlots, regionWriters, counterWriters, unmapped,
                   staleAccess, corrupted>>
    /\ UNCHANGED alsaAll

\* return rv;
MemExit ==
    /\ mtPc = "join"
    /\ live_threads = 0
    /\ mtPc' = "exited"
    /\ UNCHANGED <<num_threads, parallel, runtime, created_threads, mmap_done,
                   live_threads, started, done, sigint, timerI, rv, joined,
                   running_threads, ctHolder, testHolder, finishHolder, thPc, thId,
                   thTmp, handleSlots, regionWriters, counterWriters, unmapped,
                   staleAccess, corrupted>>
    /\ UNCHANGED alsaAll

\* main's own steps; the delivery of SIGINT is not one of them.
MemMain ==
    \/ MemLoopTest \/ MemReset \/ MemCreate \/ MemWaitDone \/ MemInitWait
    \/ MemCondWait \/ MemBegin \/ MemTick \/ MemTimerEnd \/ MemJoin \/ MemExit

\* pthread_mutex_lock(&ct_mutex);
ThLock(j) ==
    /\ thPc[j] = "start"
    /\ ctHolder = 0
    /\ ctHolder' = j
    /\ thPc' = [thPc EXCEPT ![j] = "read"]
    /\ UNCHANGED <<mtPc, num_threads, parallel, runtime, created_threads,
                   mmap_done, live_threads, started, done, sigint, timerI, rv,
                   joined, running_threads, testHolder, finishHolder, thId, thTmp,
                   handleSlots, regionWriters, counterWriters, unmapped,
                   staleAccess, corrupted>>
    /\ UNCHANGED alsaAll

\* thread_id=created_threads++; the read
ThReadId(j) ==
    /\ thPc[j] = "read"
    /\ thId' = [thId EXCEPT ![j] = created_threads]
    /\ thPc' = [thPc EXCEPT ![j] = "write"]
    /\ UNCHANGED <<mtPc, num_threads, parallel, runtime, created_threads,
                   mmap_done, live_threads, started, done, sigint, timerI, rv,
                   joined, running_threads, ctHolder, testHolder, finishHolder,
                   thTmp, handleSlots, regionWriters, counterWriters, unmapped,
                   staleAccess, corrupted>>
    /\ UNCHANGED alsaAll

\* thread_id=created_threads++; the write
ThWriteId(j) ==
    /\ thPc[j] = "write"
    /\ created_threads' = thId[j] + 1
    /\ thPc' = [thPc EXCEPT ![j] = "unlock"]
    /\ UNCHANGED <<mtPc, num_threads, parallel, runtime, mmap_done, live_threads,
                   started, done, sigint, timerI, rv, joined, running_threads,
                   ctHolder, testHolder, finishHolder, thId, thTmp, handleSlots,
                   regionWriters, counterWriters, unmapped, staleAccess, corrupted>>
    /\ UNCHANGED alsaAll

\* pthread_mutex_unlock(&ct_mutex);
ThUnlock(j) ==
    /\ thPc[j] = "unlock"
    /\ ctHolder' = 0
    /\ thPc' = [thPc EXCEPT ![j] = IF parallel THEN "signalEarly" ELSE "map"]
    /\ UNCHANGED <<mtPc, num_threads, parallel, runtime, created_threads,
                   mmap_done, live_threads, started, done, sigint, timerI, rv,
                   joined, running_threads, testHolder, finishHolder, thId, thTmp,
                   handleSlots, regionWriters, counterWriters, unmapped,
                   staleAccess, corrupted>>
    /\ UNCHANGED alsaAll

\* if (parallel) { mmap_done=1; pthread_cond_signal(&mmap_cond); }
ThSignalEarly(j) ==
    /\ thPc[j] = "signalEarly"
    /\ mmap_done' = 1
    /\ mtPc' = WakeMain("sleepMmap", "wait")
    /\ thPc' = [thPc EXCEPT ![j] = "map"]
    /\ UNCHANGED <<num_threads, parallel, runtime, created_threads, live_threads,
                   started, done, sigint, timerI, rv, joined, running_threads,
                   ctHolder, testHolder, finishHolder, thId, thTmp, handleSlots,
                   regionWriters, counterWriters, unmapped, staleAccess, corrupted>>
    /\ UNCHANGED alsaAll

\* my_region=mmap(...); mmap_regions[thread_id] = my_region;
ThMap(j) ==
    /\ thPc[j] = "map"
    /\ regionWriters' = [regionWriters EXCEPT ![thId[j]] = @ \cup {j}]
    /\ thPc' = [thPc EXCEPT ![j] = "live"]
    /\ UNCHANGED <<mtPc, num_threads, parallel, runtime, created_threads,
                   mmap_done, live_threads, started, done, sigint, timerI, rv,
                   joined, running_threads, ctHolder, testHolder, finishHolder,
                   thId, thTmp, handleSlots, counterWriters, unmapped, staleAccess,
                   corrupted>>
    /\ UNCHANGED alsaAll

\* pthread_mutex_lock(&lt_mutex); live_threads++; pthread_mutex_unlock(&lt_mutex);
\* and, with -p: else if (live_threads == num_threads) pthread_cond_signal(&init_cond);
ThLive(j) ==
    /\ thPc[j] = "live"
    /\ live_threads' = live_threads + 1
    /\ mtPc' = IF parallel /\ live_threads + 1 = num_threads
               THEN WakeMain("sleepInit", "initWait") ELSE mtPc
    /\ thPc' = [thPc EXCEPT ![j] = IF parallel THEN "waitStart" ELSE "signalLate"]
    /\ UNCHANGED <<num_threads, parallel, runtime, created_threads, mmap_done,
                   started, done, sigint, timerI, rv, joined, running_threads,
                   ctHolder, testHolder, finishHolder, thId, thTmp, handleSlots,
                   regionWriters, counterWriters, unmapped, staleAccess, corrupted>>
    /\ UNCHANGED alsaAll

\* if (!parallel) { mmap_done=1; pthread_cond_signal(&mmap_cond); }
ThSignalLate(j) ==
    /\ thPc[j] = "signalLate"
    /\ mmap_done' = 1
    /\ mtPc' = WakeMain("sleepMmap", "wait")
    /\ thPc' = [thPc EXCEPT ![j] = "waitStart"]
    /\ UNCHANGED <<num_threads, parallel, runtime, created_threads, live_threads,
                   started, done, sigint, timerI, rv, joined, running_threads,
                   ctHolder, testHolder, finishHolder, thId, thTmp, handleSlots,
                   regionWriters, counterWriters, unmapped, staleAccess, corrupted>>
    /\ UNCHANGED alsaAll

\* pthread_mutex_lock(&test_mutex); while (start.tv_sec == 0): the test
ThStartTest(j) ==
    /\ thPc[j] = "waitStart"
    /\ testHolder = 0
    /\ testHolder' = j
    /\ thPc' = [thPc EXCEPT ![j] = IF started THEN "incRead" ELSE "callStartWait"]
    /\ UNCHANGED <<mtPc, num_threads, parallel, runtime, created_threads,
                   mmap_done, live_threads, started, done, sigint, timerI, rv,
                   joined, running_threads, ctHolder, finishHolder, thId, thTmp,
                   handleSlots, regionWriters, counterWriters, unmapped,
                   staleAccess, corrupted>>
    /\ UNCHANGED alsaAll

\* pthread_cond_wait(&test_start,&test_mutex): the mutex is released and the
\* thread blocks until test_start is broadcast.
ThStartSleep(j) ==
    /\ thPc[j] = "callStartWait"
    /\ testHolder' = 0
    /\ thPc' = [thPc EXCEPT ![j] = "sleepStart"]
    /\ UNCHANGED <<mtPc, num_threads, parallel, runtime, created_threads,
                   mmap_done, live_threads, started, done, sigint, timerI, rv,
                   joined, running_threads, ctHolder, finishHolder, thId, thTmp,
                   handleSlots, regionWriters, counterWriters, unmapped,
                   staleAccess, corrupted>>
    /\ UNCHANGED alsaAll

\* running_threads++; the read (test_mutex held)
ThIncRead(j) ==
    /\ thPc[j] = "incRead"
    /\ thTmp' = [thTmp EXCEPT ![j] = running_threads]
    /\ thPc' = [thPc EXCEPT ![j] = "incWrite"]
    /\ UNCHANGED <<mtPc, num_threads, parallel, runtime, created_threads,
                   mmap_done, live_threads, started, done, sigint, timerI, rv,
                   joined, running_threads, ctHolder, testHolder, finishHolder,
                   thId, handleSlots, regionWriters, counterWriters, unmapped,
                   staleAccess, corrupted>>
    /\ UNCHANGED alsaAll

\* running_threads++; the write; pthread_mutex_unlock(&test_mutex);
\* loop_counters[thread_id]=0;
ThIncWrite(j) ==
    /\ thPc[j] = "incWrite"
    /\ running_threads' = thTmp[j] + 1
    /\ testHolder' = 0
    /\ counterWriters' = [counterWriters EXCEPT ![thId[j]] = @ \cup {j}]
    /\ thPc' = [thPc EXCEPT ![j] = "loopTest"]
    /\ UNCHANGED <<mtPc, num_threads, parallel, runtime, created_threads,
                   mmap_done, live_threads, started, done, sigint, timerI, rv,
                   joined, ctHolder, finishHolder, thId, thTmp, handleSlots,
                   regionWriters, unmapped, staleAccess, corrupted>>
    /\ UNCHANGED alsaAll

\* while (!done)
ThLoopTest(j) ==
    /\ thPc[j] = "loopTest"
    /\ thPc' = [thPc EXCEPT ![j] = IF done = 0 THEN "body" ELSE "finLock"]
    /\ UNCHANGED <<mtPc, num_threads, parallel, runtime, created_threads,
                   mmap_done, live_threads, started, done, sigint, timerI, rv,
                   joined, running_threads, ctHolder, testHolder, finishHolder,
                   thId, thTmp, handleSlots, regionWriters, counterWriters,
                   unmapped, staleAccess, corrupted>>
    /\ UNCHANGED alsaAll

\* One iteration: a page of the region of a random thread t is read and checked
\* against the header written at start-up, a word of it is read or written, and
\* loop_counters[thread_id]++. A mismatch is reported on stderr.
ThLoopBody(j) ==
    /\ thPc[j] = "body"
    /\ \E t \in 0..(num_threads - 1), mismatch \in BOOLEAN :
          /\ staleAccess' = (staleAccess \/ \E k \in unmapped : thId[k] = t)
          /\ corrupted' = (corrupted \/ mismatch)
    /\ counterWriters' = [counterWriters EXCEPT ![thId[j]] = @ \cup {j}]
    /\ thPc' = [thPc EXCEPT ![j] = "loopTest"]
    /\ UNCHANGED <<mtPc, num_threads, parallel, runtime, created_threads,
                   mmap_done, live_threads, started, done, sigint, timerI, rv,
                   joined, running_threads, ctHolder, testHolder, finishHolder,
                   thId, thTmp, handleSlots, regionWriters, unmapped>>
    /\ UNCHANGED alsaAll

\* if (running_threads==0) / while (running_threads): the barrier is open
BarrierOpen(v) == v = 0

\* pthread_mutex_lock(&finish_mutex); running_threads--; the read
ThDecRead(j) ==
    /\ thPc[j] = "finLock"
    /\ finishHolder = 0
    /\ finishHolder' = j
    /\ thTmp' = [thTmp EXCEPT ![j] = running_threads]
    /\ thPc' = [thPc EXCEPT ![j] = "decWrite"]
    /\ UNCHANGED <<mtPc, num_threads, parallel, runtime, created_threads,
                   mmap_done, live_threads, started, done, sigint, timerI, rv,
                   joined, running_threads, ctHolder, testHolder, thId,
                   handleSlots, regionWriters, counterWriters, unmapped,
                   staleAccess, corrupted>>
    /\ UNCHANGED alsaAll

\* running_threads--; the write. running_threads is unsigned: the value is kept
\* as its representative in -2^31 .. 2^31-1, so -1 stands for UINT_MAX.
\* if (running_threads==0) pthread_cond_broadcast(&finish_cond);
\* else while (running_threads) pthread_cond_wait(&finish_cond,&finish_mutex);
ThDecWrite(j) ==
    /\ thPc[j] = "decWrite"
    /\ running_threads' = thTmp[j] - 1
    /\ finishHolder' = 0
    /\ thPc' = IF BarrierOpen(thTmp[j] - 1)
               THEN [k \in ThreadPool |->
                        IF k = j THEN "unmap"
                        ELSE IF thPc[k] = "sleepFinish" THEN "finRecheck"
                        ELSE thPc[k]]
               ELSE [thPc EXCEPT ![j] = "sleepFinish"]
    /\ UNCHANGED <<mtPc, num_threads, parallel, runtime, created_threads,
                   mmap_done, live_threads, started, done, sigint, timerI, rv,
                   joined, ctHolder, testHolder, thId, thTmp, handleSlots,
                   regionWriters, counterWriters, unmapped, staleAccess, corrupted>>
    /\ UNCHANGED alsaAll

\* Woken on finish_cond: finish_mutex is taken again and while (running_threads)
\* is tested; the thread goes on or waits again.
ThFinishRecheck(j) ==
    /\ thPc[j] = "finRecheck"
    /\ finishHolder = 0
    /\ thPc' = [thPc EXCEPT ![j] = IF BarrierOpen(running_threads) THEN "unmap"
                                                                    ELSE "sleepFinish"]
    /\ UNCHANGED <<mtPc, num_threads, parallel, runtime, created_threads,
                   mmap_done, live_threads, started, done, sigint, timerI, rv,
                   joined, running_threads, ctHolder, testHolder, finishHolder,
                   thId, thTmp, handleSlots, regionWriters, counterWriters,
                   unmapped, staleAccess, corrupted>>
    /\ UNCHANGED alsaAll

\* munmap(my_region,mapsize); return NULL;
ThUnmap(j) ==
    /\ thPc[j] = "unmap"
    /\ unmapped' = unmapped \cup {j}
    /\ thPc' = [thPc EXCEPT ![j] = "returned"]
    /\ UNCHANGED <<mtPc, num_threads, parallel, runtime, created_threads,
                   mmap_done, live_threads, started, done, sigint, timerI, rv,
                   joined, running_threads, ctHolder, testHolder, finishHolder,
                   thId, thTmp, handleSlots, regionWriters, counterWriters,
                   staleAccess, corrupted>>
    /\ UNCHANGED alsaAll

\* The threads that have executed thread_id=created_threads++.
IdentifiedThreads == {j \in ThreadPool : thPc[j] \notin {"none", "start", "read"}}

\* The steps of thread j.
Twiddler(j) ==
    \/ ThLock(j) \/ ThReadId(j) \/ ThWriteId(j) \/ ThUnlock(j)
    \/ ThSignalEarly(j) \/ ThMap(j) \/ ThLive(j) \/ ThSignalLate(j)
    \/ ThStartTest(j) \/ ThStartSleep(j) \/ ThIncRead(j) \/ ThIncWrite(j)
    \/ ThLoopTest(j) \/ ThLoopBody(j) \/ ThDecRead(j) \/ ThDecWrite(j)
    \/ ThFinishRecheck(j) \/ ThUnmap(j)

mem_twiddler == \E j \in ThreadPool : Twiddler(j)

\* main from the creation loop to the broadcast of test_start.
MemStartUp ==
    \/ MemLoopTest \/ MemReset \/ MemCreate \/ MemWaitDone \/ MemInitWait
    \/ MemCondWait \/ MemBegin

\* mem_twiddler from its first statement to the iterations of the test loop.
TwiddlerStartUp(j) ==
    \/ ThLock(j) \/ ThReadId(j) \/ ThWriteId(j) \/ ThUnlock(j)
    \/ ThSignalEarly(j) \/ ThMap(j) \/ ThLive(j) \/ ThSignalLate(j)
    \/ ThStartTest(j) \/ ThStartSleep(j) \/ ThIncRead(j) \/ ThIncWrite(j)
    \/ ThLoopTest(j) \/ ThLoopBody(j)

\* ------------------------------------------------------- fft, the recursion
HalfLenUp(n) == (n + 1) \div 2

\* N/2 of size_t N
HalfLen(n) == n \div 2

\* The indexes std::slice(start, size, stride) selects.
Slice(start, size, stride) == {start + i * stride : i \in 0..(size - 1)}

\* A call of fft on n elements that has not run yet.
FftFrame(n) == [n |-> n, pc |-> "enter", read |-> {}, written |-> {}]

Top(stack) == stack[Len(stack)]
Pop(stack) == SubSeq(stack, 1, Len(stack) - 1)
SetTop(stack, frame) == [stack EXCEPT ![Len(stack)] = frame]

\* A call is made: the stack grows by its frame.
FftPush(stack, n) ==
    /\ fcStack' = Append(stack, FftFrame(n))
    /\ fcMaxDepth' = IF Len(stack) + 1 > fcMaxDepth THEN Len(stack) + 1 ELSE fcMaxDepth
    /\ fcCalls' = fcCalls + 1

\* if (N <= 1) return;
FftBase ==
    /\ fcPc = "call"
    /\ Top(fcStack).pc = "enter"
    /\ Top(fcStack).n <= 1
    /\ fcStack' = SetTop(fcStack, [Top(fcStack) EXCEPT !.pc = "return"])
    /\ UNCHANGED <<fcPc, fcN, fcMaxDepth, fcCalls>>
    /\ UNCHANGED fftCallRest

\* CArray even = x[std::slice(0, N/2, 2)]; CArray odd = x[std::slice(1, N/2, 2)];
\* fft(even);
FftSlices ==
    /\ fcPc = "call"
    /\ Top(fcStack).pc = "enter"
    /\ Top(fcStack).n > 1
    /\ LET n == Top(fcStack).n
           half == HalfLen(n)
           frame == [Top(fcStack) EXCEPT
                        !.pc = "even",
                        !.read = Slice(0, half, 2) \cup Slice(1, half, 2)]
       IN  FftPush(SetTop(fcStack, frame), half)
    /\ UNCHANGED <<fcPc, fcN>>
    /\ UNCHANGED fftCallRest

\* fft(even) returned; fft(odd);
FftEvenReturned ==
    /\ fcPc = "call"
    /\ Len(fcStack) > 1
    /\ Top(fcStack).pc = "return"
    /\ Top(Pop(fcStack)).pc = "even"
    /\ LET caller == Top(Pop(fcStack))
       IN  FftPush(SetTop(Pop(fcStack), [caller EXCEPT !.pc = "odd"]), HalfLen(caller.n))
    /\ UNCHANGED <<fcPc, fcN>>
    /\ UNCHANGED fftCallRest

\* fft(odd) returned
FftOddReturned ==
    /\ fcPc = "call"
    /\ Len(fcStack) > 1
    /\ Top(fcStack).pc = "return"
    /\ Top(Pop(fcStack)).pc = "odd"
    /\ fcStack' = SetTop(Pop(fcStack), [Top(Pop(fcStack)) EXCEPT !.pc = "loop"])
    /\ UNCHANGED <<fcPc, fcN, fcMaxDepth, fcCalls>>
    /\ UNCHANGED fftCallRest

\* for (size_t k = 0; k < N/2; ++k) { ...; x[k] = even[k] + t; x[k+N/2] = even[k] - t; }
FftButterflies ==
    /\ fcPc = "call"
    /\ Top(fcStack).pc = "loop"
    /\ LET half == HalfLen(Top(fcStack).n)
       IN  fcStack' = SetTop(fcStack,
               [Top(fcStack) EXCEPT
                   !.pc = "return",
                   !.written = {k : k \in 0..(half - 1)} \cup
                               {k + half : k \in 0..(half - 1)}])
    /\ UNCHANGED <<fcPc, fcN, fcMaxDepth, fcCalls>>
    /\ UNCHANGED fftCallRest

\* The outermost call returns to dominant_freq.
FftDone ==
    /\ fcPc = "call"
    /\ Len(fcStack) = 1
    /\ Top(fcStack).pc = "return"
    /\ fcPc' = "done"
    /\ UNCHANGED <<fcN, fcStack, fcMaxDepth, fcCalls>>
    /\ UNCHANGED fftCallRest

fft ==
    \/ FftBase \/ FftSlices \/ FftEvenReturned \/ FftOddReturned
    \/ FftButterflies \/ FftDone

\* ----------------------------------------------------------- 80211_resource
\* The bit-fields of struct wireless_capabilities.
CapFlags == {"ac", "n", "bg", "band_5GHz"}

\* struct wireless_capabilities cap;  an automatic variable without initialiser
CapIndeterminate == [f \in CapFlags |-> "indeterminate"]

\* cap.ac_support = 0; ... cap.band_5GHz_support = 0;
CapCleared == [f \in CapFlags |-> "clear"]

\* The values a read of a flag can give: either bit when it is indeterminate.
ReadFlag(cap, f) ==
    IF cap[f] = "indeterminate" THEN BOOLEAN ELSE {cap[f] = "set"}

\* The flags a read of which is a read of an indeterminate value.
Indeterminate(cap, fs) == {f \in fs : cap[f] = "indeterminate"}

\* What print_phy_handler sets for one wiphy message: nothing without bands,
\* otherwise bg and whichever of ac, n and band_5GHz its bands show.
PhyMessages == {{}} \cup {{"bg"} \cup fs : fs \in SUBSET {"ac", "n", "band_5GHz"}}

\* The negative errno values err takes: -ENOMEM, -ENOLINK, -ENOENT, -EBUSY
ErrnoCodes == {-12, -67, -2, -16}

WifiExit(status) ==
    /\ wfPc' = "exited"
    /\ wfExit' = status

\* err = nl80211_init(&nlstate); if (err) return 1;
WifiInit ==
    /\ wfPc = "init"
    /\ \E e \in {0, -12, -67, -2} :
          /\ wfErr' = e
          /\ IF e # 0 THEN WifiExit(1) ELSE wfPc' = "alloc" /\ UNCHANGED wfExit
    /\ UNCHANGED <<wfCap, wfSetBy, wfMsgs, wfCallbackRan, wfRecvAfter, wfUninitRead,
                   wfPrinted>>
    /\ UNCHANGED wifiRest

\* msg = nlmsg_alloc(); if (!msg) return 2;  cb = ..., s_cb = ...;
\* if (!cb || !s_cb) { err = 2; goto out_free_msg; }
WifiAlloc ==
    /\ wfPc = "alloc"
    /\ \E failed \in {"none", "msg", "cb"} :
          CASE failed = "msg" -> WifiExit(2) /\ UNCHANGED wfErr
            [] failed = "cb" -> wfErr' = 2 /\ wfPc' = "cleanup" /\ UNCHANGED wfExit
            [] OTHER -> wfPc' = "send" /\ UNCHANGED <<wfErr, wfExit>>
    /\ UNCHANGED <<wfCap, wfSetBy, wfMsgs, wfCallbackRan, wfRecvAfter, wfUninitRead,
                   wfPrinted>>
    /\ UNCHANGED wifiRest

\* err = nl_send_auto_complete(...); if (err < 0) goto out;
\* err = 1; cap.ac_support = 0; ...; the callbacks are registered
WifiSend ==
    /\ wfPc = "send"
    /\ \E sent \in BOOLEAN, e \in ErrnoCodes :
          IF sent
          THEN /\ wfErr' = 1
               /\ wfCap' = CapCleared
               /\ wfPc' = "loopTest"
          ELSE /\ wfErr' = e
               /\ wfPc' = "cleanup"
               /\ UNCHANGED wfCap
    /\ UNCHANGED <<wfSetBy, wfMsgs, wfCallbackRan, wfRecvAfter, wfUninitRead, wfPrinted,
                   wfExit>>
    /\ UNCHANGED wifiRest

\* while (err > 0) nl_recvmsgs(nlstate.nl_sock, cb);
WifiLoopTest ==
    /\ wfPc = "loopTest"
    /\ IF wfErr > 0
          THEN wfPc' = "recv" /\ wfRecvAfter' = (wfRecvAfter \/ wfCallbackRan)
          ELSE wfPc' = "cleanup" /\ UNCHANGED wfRecvAfter
    /\ UNCHANGED <<wfErr, wfCap, wfSetBy, wfMsgs, wfCallbackRan, wfUninitRead, wfPrinted,
                   wfExit>>
    /\ UNCHANGED wifiRest

\* nl_recvmsgs hands a valid message to print_phy_handler.
print_phy_handler ==
    /\ wfPc = "recv"
    /\ Len(wfMsgs) < MaxPhyMsgs
    /\ \E m \in PhyMessages, more \in BOOLEAN :
          /\ wfMsgs' = Append(wfMsgs, m)
          /\ wfCap' = [f \in CapFlags |-> IF f \in m THEN "set" ELSE wfCap[f]]
          /\ wfSetBy' = [f \in CapFlags |-> IF f \in m THEN "print_phy_handler"
                                                       ELSE wfSetBy[f]]
          /\ wfPc' = IF more THEN "recv" ELSE "loopTest"
    /\ UNCHANGED <<wfErr, wfCallbackRan, wfRecvAfter, wfUninitRead, wfPrinted, wfExit>>
    /\ UNCHANGED wifiRest

\* nl_recvmsgs reaches the end of the dump: *ret = 0; return NL_SKIP;
finish_handler ==
    /\ wfPc = "recv"
    /\ wfErr' = 0
    /\ wfCallbackRan' = TRUE
    /\ wfPc' = "loopTest"
    /\ UNCHANGED <<wfCap, wfSetBy, wfMsgs, wfRecvAfter, wfUninitRead, wfPrinted, wfExit>>
    /\ UNCHANGED wifiRest

\* nl_recvmsgs receives an error message: *ret = err->error; return NL_STOP;
error_handler ==
    /\ wfPc = "recv"
    /\ \E e \in ErrnoCodes : wfErr' = e
    /\ wfCallbackRan' = TRUE
    /\ wfPc' = "loopTest"
    /\ UNCHANGED <<wfCap, wfSetBy, wfMsgs, wfRecvAfter, wfUninitRead, wfPrinted, wfExit>>
    /\ UNCHANGED wifiRest

\* out: nl_cb_put(cb); out_free_msg: nlmsg_free(msg); ...; nl80211_cleanup(&nlstate);
\* if (!cap.ac_support) { popen("lspci -nnv"); heuristic_test(pci_fp, "802.11ac") }
WifiHeuristic ==
    /\ wfPc = "cleanup"
    /\ wfUninitRead' = wfUninitRead \cup Indeterminate(wfCap, {"ac"})
    /\ \E ac \in ReadFlag(wfCap, "ac"), lspci \in {"failed", "found", "absent"} :
          IF ac
          THEN wfPc' = "print" /\ UNCHANGED <<wfCap, wfSetBy, wfExit>>
          ELSE CASE lspci = "failed" -> WifiExit(1) /\ UNCHANGED <<wfCap, wfSetBy>>
                 [] lspci = "found" ->
                        /\ wfCap' = [wfCap EXCEPT !["ac"] = "set"]
                        /\ wfSetBy' = [wfSetBy EXCEPT !["ac"] = "lspci"]
                        /\ wfPc' = "print"
                        /\ UNCHANGED wfExit
                 [] OTHER -> wfPc' = "print" /\ UNCHANGED <<wfCap, wfSetBy, wfExit>>
    /\ UNCHANGED <<wfErr, wfMsgs, wfCallbackRan, wfRecvAfter, wfPrinted>>
    /\ UNCHANGED wifiRest

\* if (cap.ac_support) printf("ac: supported\n"); ... ; return err;
WifiPrint ==
    /\ wfPc = "print"
    /\ wfUninitRead' = wfUninitRead \cup Indeterminate(wfCap, CapFlags)
    /\ \E read \in [CapFlags -> BOOLEAN] :
          /\ \A f \in CapFlags : read[f] \in ReadFlag(wfCap, f)
          /\ wfPrinted' = {f \in CapFlags : read[f]}
    /\ WifiExit(wfErr)
    /\ UNCHANGED <<wfErr, wfCap, wfSetBy, wfMsgs, wfCallbackRan, wfRecvAfter>>
    /\ UNCHANGED wifiRest

wifi_main ==
    \/ WifiInit \/ WifiAlloc \/ WifiSend \/ WifiLoopTest
    \/ print_phy_handler \/ finish_handler \/ error_handler
    \/ WifiHeuristic \/ WifiPrint

\* ------------------------------------------- keyboard-mouse_test, mouse moves
\* #define MOVE_DELTA 5
MOVE_DELTA == 5
\* #define MOVE_MAX (__MOVE_MAX & 1 ? __MOVE_MAX : __MOVE_MAX + 1), __MOVE_MAX = 100
MOVE_MAX == 101
\* steps = steps ? steps : 0x7fffffff;
IntMax == 2147483647

\* rand() % MOVE_MAX - MOVE_MAX / 2 for rand() >= 0
MoveRand == {r - MOVE_MAX \div 2 : r \in 0..(MOVE_MAX - 1)}

\* a / b of two ints, b # 0: the quotient is truncated towards zero.
CDiv(a, b) ==
    IF (a >= 0) = (b > 0) THEN Abs(a) \div Abs(b) ELSE -(Abs(a) \div Abs(b))

\* a % b of two ints, b # 0: the remainder has the sign of a.
CMod(a, b) == IF a >= 0 THEN a % Abs(b) ELSE -((-a) % Abs(b))

\* MAX(abs(x), abs(y)) / MOVE_DELTA
StepsOf(x, y) == CDiv(IF Abs(x) > Abs(y) THEN Abs(x) ELSE Abs(y), MOVE_DELTA)

RestDivisorOne(steps) == IF steps # 0 THEN steps ELSE 1

\* steps = steps ? steps : 0x7fffffff;
RestDivisor(steps) == IF steps # 0 THEN steps ELSE IntMax

\* x = MOVE_RAND; y = MOVE_RAND; steps = MAX(abs(x), abs(y)) / MOVE_DELTA;
MouseRand ==
    /\ mvPc = "rand"
    /\ mvSteps' = StepsOf(mvX, mvY)
    /\ mvI' = 0
    /\ mvPc' = "loop"
    /\ UNCHANGED <<mvX, mvY, mvMoves, mvDivByZero>>
    /\ UNCHANGED mouseRest

\* for (int i = 0; i < steps; i++) { mouse_move(fd, x / steps, y / steps); ... }
MouseStep ==
    /\ mvPc = "loop"
    /\ mvI < mvSteps
    /\ mvDivByZero' = (mvDivByZero \/ mvSteps = 0)
    /\ mvMoves' = IF mvSteps = 0 THEN mvMoves
                  ELSE Append(mvMoves, <<CDiv(mvX, mvSteps), CDiv(mvY, mvSteps)>>)
    /\ mvI' = mvI + 1
    /\ UNCHANGED <<mvPc, mvX, mvY, mvSteps>>
    /\ UNCHANGED mouseRest

\* steps = steps ? steps : 0x7fffffff; int rest_x = x % steps, rest_y = y % steps;
\* if (rest_x || rest_y) { mouse_move(fd, rest_x, rest_y); ... }
MouseRemainder ==
    /\ mvPc = "loop"
    /\ ~(mvI < mvSteps)
    /\ LET divisor == RestDivisor(mvSteps)
           rest_x == CMod(mvX, divisor)
           rest_y == CMod(mvY, divisor)
       IN  /\ mvSteps' = divisor
           /\ mvDivByZero' = (mvDivByZero \/ divisor = 0)
           /\ mvMoves' = IF rest_x # 0 \/ rest_y # 0
                            THEN Append(mvMoves, <<rest_x, rest_y>>) ELSE mvMoves
    /\ mvPc' = "done"
    /\ UNCHANGED <<mvX, mvY, mvI>>
    /\ UNCHANGED mouseRest

rand_mouse_moves == MouseRand \/ MouseStep \/ MouseRemainder

\* ---------------------------------------------------------------- clocktest
\* int sleeptime = 60;
sleeptime == 60
\* for (iteration = 0; iteration < 5; iteration++)
ClockIterations == 5
\* if (deltas[iteration] > 0.01), in microseconds
DeltaLimitUs == 10000
UsecPerSec == 1000000

\* timersub(&tval_stop, &tval_start, &tval_result) of one iteration: tv_usec is
\* normalised to 0 .. 999999 and tv_sec is negative when the clock was set back.
\* The values are the limit 60.01 s, its neighbours, a sleep cut short, a late
\* wake-up and a clock that went backwards.
ElapsedTimes ==
    {<<-1, 500000>>, <<59, 999999>>, <<60, 0>>, <<60, 10000>>, <<60, 10001>>, <<61, 0>>}

\* deltas[iteration] = (tval_result.tv_sec - sleeptime) + (tval_result.tv_usec / 1000000.0)
\* in microseconds.  The double the code computes compares with 0.01 as the
\* microsecond count compares with 10000: tv_usec / 1000000.0 is rounded to the
\* nearest double, which for 10000 is the double of the literal 0.01 and for
\* 10001 a larger one, and with tv_sec - sleeptime # 0 the sum is >= 1 or < 0.
DeltaUs(tv) == (tv[1] - sleeptime) * UsecPerSec + tv[2]

IterationFailsAbs(d) == Abs(d) > DeltaLimitUs

\* if (deltas[iteration] > 0.01)
IterationFails(d) == d > DeltaLimitUs

\* int failures = test_clock_jitter(); it returns 0, 1 on an error, or (failures > 0)
ClockJitter ==
    /\ ckPc = "start"
    /\ \E r \in {0, 1} :
          /\ ckJitter' = r
          /\ ckMainFailures' = r
          /\ ckPc' = IF r = 0 THEN "sleep" ELSE "mainReturn"
    /\ UNCHANGED <<ckIteration, ckElapsed, ckDeltas, ckFailures, ckExit>>
    /\ UNCHANGED clockRest

\* One iteration of the measuring loop: gettimeofday, sleep(60), gettimeofday.
ClockSleep ==
    /\ ckPc = "sleep"
    /\ ckIteration < ClockIterations
    /\ \E tv \in ElapsedTimes :
          /\ ckElapsed' = Append(ckElapsed, tv)
          /\ ckDeltas' = Append(ckDeltas, DeltaUs(tv))
    /\ IF ckIteration + 1 < ClockIterations
          THEN ckIteration' = ckIteration + 1 /\ ckPc' = "sleep"
          ELSE ckIteration' = 0 /\ ckPc' = "judge"
    /\ UNCHANGED <<ckJitter, ckFailures, ckMainFailures, ckExit>>
    /\ UNCHANGED clockRest

\* One iteration of the judging loop.
ClockJudge ==
    /\ ckPc = "judge"
    /\ ckIteration < ClockIterations
    /\ ckFailures' = IF IterationFails(ckDeltas[ckIteration + 1])
                        THEN ckFailures + 1 ELSE ckFailures
    /\ ckIteration' = ckIteration + 1
    /\ ckPc' = IF ckIteration + 1 < ClockIterations THEN "judge" ELSE "dirReturn"
    /\ UNCHANGED <<ckJitter, ckElapsed, ckDeltas, ckMainFailures, ckExit>>
    /\ UNCHANGED clockRest

\* return (failures > 0);  assigned to main's failures
ClockDirectionReturn ==
    /\ ckPc = "dirReturn"
    /\ ckMainFailures' = IF ckFailures > 0 THEN 1 ELSE 0
    /\ ckPc' = "mainReturn"
    /\ UNCHANGED <<ckJitter, ckIteration, ckElapsed, ckDeltas, ckFailures, ckExit>>
    /\ UNCHANGED clockRest

\* return failures;
ClockMainReturn ==
    /\ ckPc = "mainReturn"
    /\ ckExit' = ckMainFailures
    /\ ckPc' = "exited"
    /\ UNCHANGED <<ckJitter, ckIteration, ckElapsed, ckDeltas, ckFailures, ckMainFailures>>
    /\ UNCHANGED clockRest

test_clock_direction == ClockSleep \/ ClockJudge \/ ClockDirectionReturn

\* ------------------------------------------------------------ specification
\* No loopback scenario running.
LoopbackIdle ==
    /\ mainPc = "start"
    /\ exitStatus = "running"
    /\ primaryResult = "none"
    /\ primaryDevErr = "none"
    /\ fallbackRan = FALSE
    /\ fbPc = "idle"
    /\ pIdx = 1
    /\ rIdx = 1
    /\ tried = <<>>
    /\ passedPairs = {}
    /\ fbResult = "none"
    /\ ltPc = "idle"
    /\ ltCapture = ""
    /\ ltPlayback = ""
    /\ attempt = 0
    /\ recorder = NoHandle
    /\ player = NoHandle
    /\ recPc = "none"
    /\ dominant = -1
    /\ verdicts = <<>>
    /\ ltResult = "none"
    /\ devErr = "none"
    /\ errAttempt = -1
    /\ opened = 0
    /\ prevHandles = {}
    /\ openHandles = {}
    /\ recUsers = {}
    /\ playUsers = {}
    /\ concurrentUse = FALSE

\* No Pcm object constructed yet.
PcmIdle ==
    /\ pcmPc = "none"
    /\ pcm = NoPcm
    /\ pcmCalls = <<>>
    /\ pcmLog = <<>>
    /\ pcmCycles = 0

\* No frame computed.
SampleIdle ==
    /\ smPc = "input"
    /\ smEnc = "int16"
    /\ smSin = 0
    /\ smAmp = 0
    /\ smFrame = <<0, 0>>

\* sine() not called.
SineIdle ==
    /\ snPc = "idle"
    /\ snRate = 44100
    /\ snPeriod = 4410
    /\ snDur = 1
    /\ snT = 0
    /\ snFrames = 0
    /\ snWrites = 0
    /\ snUnderruns = 0
    /\ snPrepares = 0
    /\ snStream = "prepared"
    /\ snRaised = FALSE

\* record() not called.
RecordIdle ==
    /\ rcPc = "idle"
    /\ rcPeriod = 1
    /\ rcN = 0
    /\ rcLeft = 0
    /\ rcPos = 0
    /\ rcCaptured = 0
    /\ rcGarbage = 0
    /\ rcHigh = 0

\* dominant_freq not called, no buffer allocated.
DfIdle ==
    /\ dfPc = "input"
    /\ dfN = 0
    /\ dfRate = 88200
    /\ dfMag = <<>>
    /\ dfResult = [num |-> 0, den |-> 1]
    /\ dfVerdict = "none"

FfIdle ==
    /\ ffPc = "input"
    /\ ffRate = 44100
    /\ ffDur = 16
    /\ ffBuffsize = 0
    /\ ffLen = 0
    /\ ffDepth = 0
    /\ ffOddSplit = FALSE

DspIdle == DfIdle /\ FfIdle

\* main's dispatch not started.
CliIdle ==
    /\ clPc = "start"
    /\ clScenario = ""
    /\ clFormatOpt = ""
    /\ clPlaybackOpt = ""
    /\ clScenarios = {}
    /\ clPlaybackPcm = "default"
    /\ clRan = <<>>
    /\ clOpened = "none"
    /\ clOutcome = "none"
    /\ clExit = "running"

\* threaded_memtest's main before it creates its first thread.
MemStart ==
    /\ mtPc = "test"
    /\ created_threads = 0
    /\ mmap_done = 0
    /\ live_threads = 0
    /\ started = FALSE
    /\ done = 0
    /\ sigint = FALSE
    /\ timerI = 0
    /\ rv = -1
    /\ joined = <<>>
    /\ running_threads = 0
    /\ ctHolder = 0
    /\ testHolder = 0
    /\ finishHolder = 0
    /\ thPc = [j \in ThreadPool |-> "none"]
    /\ thId = [j \in ThreadPool |-> -1]
    /\ thTmp = [j \in ThreadPool |-> 0]
    /\ unmapped = {}
    /\ staleAccess = FALSE
    /\ corrupted = FALSE
    /\ handleSlots = <<>>
    /\ regionWriters = [i \in SlotIds |-> {}]
    /\ counterWriters = [i \in SlotIds |-> {}]

\* clocktest not run.
ClockIdle ==
    /\ ckPc = "start"
    /\ ckJitter = -1
    /\ ckIteration = 0
    /\ ckElapsed = <<>>
    /\ ckDeltas = <<>>
    /\ ckFailures = 0
    /\ ckMainFailures = -1
    /\ ckExit = -1

\* fft not called: the state of a call on an empty buffer.
FftCallIdle ==
    /\ fcPc = "call"
    /\ fcN = 0
    /\ fcStack = <<FftFrame(0)>>
    /\ fcMaxDepth = 1
    /\ fcCalls = 1

\* 80211_resource not run.
WifiIdle ==
    /\ wfPc = "init"
    /\ wfErr = 0
    /\ wfCap = CapIndeterminate
    /\ wfSetBy = [f \in CapFlags |-> "nothing"]
    /\ wfMsgs = <<>>
    /\ wfCallbackRan = FALSE
    /\ wfRecvAfter = FALSE
    /\ wfUninitRead = {}
    /\ wfPrinted = {}
    /\ wfExit = "running"

\* rand_mouse_moves not called.
MouseStart ==
    /\ mvPc = "rand"
    /\ mvSteps = 0
    /\ mvI = 0
    /\ mvMoves = <<>>
    /\ mvDivByZero = FALSE

MouseIdle ==
    /\ mvX = 0
    /\ mvY = 0
    /\ MouseStart

ToolIdle == ClockIdle /\ FftCallIdle /\ WifiIdle /\ MouseIdle

\* threaded_memtest not run.
MemIdle ==
    /\ num_threads = 1
    /\ parallel = FALSE
    /\ runtime = 1
    /\ MemStart

AuxIdle == SampleIdle /\ SineIdle /\ RecordIdle /\ DspIdle /\ CliIdle /\ MemIdle /\ ToolIdle

\* The loopback scenario: alsa_test loopback [-d ..] [--capture-pcm ..] [--playback-pcm ..]
Init ==
    /\ hints \in {h \in HintLists(CardOrder) : Len(h) <= MaxHints}
    /\ duration \in Durations
    /\ absIsInt \in BOOLEAN
    /\ capture_pcm \in PcmArgs
    /\ playback_pcm \in PcmArgs
    /\ LoopbackIdle
    /\ PcmIdle
    /\ AuxIdle

Next == main \/ fallback_loopback \/ loopback_test

Spec == Init /\ [][Next]_vars

\* The lifecycle of Pcm objects, one after the other.
InitPcm ==
    /\ hints = <<>>
    /\ duration = 1
    /\ absIsInt = FALSE
    /\ capture_pcm = "default"
    /\ playback_pcm = "default"
    /\ LoopbackIdle
    /\ PcmIdle
    /\ AuxIdle

NextPcm ==
    \/ PcmConstruct \/ PcmConstructFail
    \/ PcmSetParams \/ PcmSetParamsFail
    \/ PcmUse \/ PcmDestroy

SpecPcm == InitPcm /\ [][NextPcm]_vars

\* No alsa_test scenario and no Pcm lifecycle running.
AlsaIdle ==
    /\ hints = <<>>
    /\ duration = 1
    /\ absIsInt = FALSE
    /\ capture_pcm = "default"
    /\ playback_pcm = "default"
    /\ LoopbackIdle
    /\ PcmIdle

\* Pcm::sine's frame computation on every encoding, sin() value and amplitude.
InitSample ==
    /\ AlsaIdle
    /\ ToolIdle
    /\ smPc = "input"
    /\ smEnc \in Encodings
    /\ smSin \in -SineSteps..SineSteps
    /\ smAmp \in 0..AmpSteps
    /\ smFrame = <<0, 0>>
    /\ SineIdle
    /\ RecordIdle
    /\ DspIdle
    /\ CliIdle
    /\ MemIdle

NextSample == SineFrame

SpecSample == InitSample /\ [][NextSample]_vars

\* Pcm::sine's write loop for every negotiated rate and period and every duration.
InitSine ==
    /\ AlsaIdle
    /\ ToolIdle
    /\ SampleIdle
    /\ snPc = "idle"
    /\ snRate \in Rates
    /\ snPeriod \in Periods
    /\ snDur \in Durations
    /\ snT = 0
    /\ snFrames = 0
    /\ snWrites = 0
    /\ snUnderruns = 0
    /\ snPrepares = 0
    /\ snStream = "prepared"
    /\ snRaised = FALSE
    /\ RecordIdle
    /\ DspIdle
    /\ CliIdle
    /\ MemIdle

NextSine == SineEnter \/ SineWritePeriod \/ SineReturn

SpecSine == InitSine /\ [][NextSine]_vars

\* sine() is not preempted for ever: the calling thread keeps being scheduled.
SpecSineFair == SpecSine /\ WF_vars(NextSine)

\* Pcm::record for every request of up to MaxRecordSamples samples and every
\* period of up to MaxRecordPeriod frames.
InitRecord ==
    /\ AlsaIdle
    /\ ToolIdle
    /\ SampleIdle
    /\ SineIdle
    /\ rcPc = "idle"
    /\ rcPeriod \in 1..MaxRecordPeriod
    /\ rcN \in 0..MaxRecordSamples
    /\ rcLeft = 0
    /\ rcPos = 0
    /\ rcCaptured = 0
    /\ rcGarbage = 0
    /\ rcHigh = 0
    /\ DspIdle
    /\ CliIdle
    /\ MemIdle

NextRecord == RecordEnter \/ RecordWholePeriod \/ RecordLastPart \/ RecordReturn

SpecRecord == InitRecord /\ [][NextRecord]_vars

\* dominant_freq on every spectrum of up to MaxBins bins.
InitDf ==
    /\ AlsaIdle
    /\ ToolIdle
    /\ SampleIdle
    /\ SineIdle
    /\ RecordIdle
    /\ FfIdle
    /\ dfPc = "input"
    /\ dfN \in 0..MaxBins
    /\ dfRate \in StereoRates
    /\ dfMag \in Spectra(dfN)
    /\ dfResult = [num |-> 0, den |-> 1]
    /\ dfVerdict = "none"
    /\ CliIdle
    /\ MemIdle

NextDf == DominantFreq \/ DfJudge

SpecDf == InitDf /\ [][NextDf]_vars

\* The capture buffer's size and fft's recursion on it, for every format's rate
\* and every duration.
InitFft ==
    /\ AlsaIdle
    /\ ToolIdle
    /\ SampleIdle
    /\ SineIdle
    /\ RecordIdle
    /\ DfIdle
    /\ ffPc = "input"
    /\ ffRate \in SamplingRates
    /\ ffDur \in DurSixteenths
    /\ ffBuffsize = 0
    /\ ffLen = 0
    /\ ffDepth = 0
    /\ ffOddSplit = FALSE
    /\ CliIdle
    /\ MemIdle

NextFft == LtAllocate \/ FftSplit \/ FftLeaf

SpecFft == InitFft /\ [][NextFft]_vars

\* main on every scenario word and --format word; without args[1] there is no
\* room for an option either.
InitCli ==
    /\ AlsaIdle
    /\ ToolIdle
    /\ SampleIdle
    /\ SineIdle
    /\ RecordIdle
    /\ DspIdle
    /\ clPc = "start"
    /\ clScenario \in ScenarioArgs \cup {""}
    /\ clFormatOpt \in FormatOpts
    /\ clPlaybackOpt \in {""} \cup PcmArgs
    /\ (clScenario = "" => clFormatOpt = "" /\ clPlaybackOpt = "")
    /\ clScenarios = {}
    /\ clPlaybackPcm = "default"
    /\ clRan = <<>>
    /\ clOpened = "none"
    /\ clOutcome = "none"
    /\ clExit = "running"
    /\ MemIdle

NextCli ==
    \/ CliParseFormat \/ CliMissingScenario
    \/ CliPlayback \/ CliLoopback \/ CliList
    \/ CliNotFound \/ CliFallOffEnd

SpecCli == InitCli /\ [][NextCli]_vars

\* threaded_memtest -n num_threads -t runtime [-p]
InitMem ==
    /\ AlsaIdle
    /\ ToolIdle
    /\ SampleIdle
    /\ SineIdle
    /\ RecordIdle
    /\ DspIdle
    /\ CliIdle
    /\ num_threads \in 1..MaxThreads
    /\ parallel \in BOOLEAN
    /\ runtime \in 1..MaxRuntime
    /\ MemStart

NextMem == MemMain \/ MemSigint \/ mem_twiddler

SpecMem == InitMem /\ [][NextMem]_vars

\* threaded_memtest while done is 0: thread start-up and the test loop.
NextMemStart == MemStartUp \/ \E j \in ThreadPool : TwiddlerStartUp(j)

SpecMemStart == InitMem /\ [][NextMemStart]_vars

\* main and every thread keep being scheduled; nothing is assumed about SIGINT.
SpecMemFair ==
    /\ SpecMem
    /\ WF_vars(MemMain)
    /\ \A j \in ThreadPool : WF_vars(Twiddler(j))

\* clocktest, on every result of the jitter test and every series of sleeps.
InitClock ==
    /\ AlsaIdle
    /\ SampleIdle
    /\ SineIdle
    /\ RecordIdle
    /\ DspIdle
    /\ CliIdle
    /\ MemIdle
    /\ ClockIdle
    /\ FftCallIdle
    /\ WifiIdle
    /\ MouseIdle

NextClock == ClockJitter \/ test_clock_direction \/ ClockMainReturn

SpecClock == InitClock /\ [][NextClock]_vars

\* fft(x) on a buffer of every length 0 .. MaxFftLen.
InitFftCall ==
    /\ AlsaIdle
    /\ SampleIdle
    /\ SineIdle
    /\ RecordIdle
    /\ DspIdle
    /\ CliIdle
    /\ MemIdle
    /\ ClockIdle
    /\ WifiIdle
    /\ MouseIdle
    /\ fcPc = "call"
    /\ fcN \in 0..MaxFftLen
    /\ fcStack = <<FftFrame(fcN)>>
    /\ fcMaxDepth = 1
    /\ fcCalls = 1

NextFftCall == fft

SpecFftCall == InitFftCall /\ [][NextFftCall]_vars

\* The single thread that runs fft keeps running.
SpecFftCallFair == SpecFftCall /\ WF_vars(NextFftCall)

\* 80211_resource, on every outcome of the netlink calls and of lspci.
InitWifi ==
    /\ AlsaIdle
    /\ SampleIdle
    /\ SineIdle
    /\ RecordIdle
    /\ DspIdle
    /\ CliIdle
    /\ MemIdle
    /\ ClockIdle
    /\ FftCallIdle
    /\ WifiIdle
    /\ MouseIdle

NextWifi == wifi_main

SpecWifi == InitWifi /\ [][NextWifi]_vars

\* rand_mouse_moves on every pair of values MOVE_RAND can give.
InitMouse ==
    /\ AlsaIdle
    /\ SampleIdle
    /\ SineIdle
    /\ RecordIdle
    /\ DspIdle
    /\ CliIdle
    /\ MemIdle
    /\ ClockIdle
    /\ FftCallIdle
    /\ WifiIdle
    /\ mvX \in MoveRand
    /\ mvY \in MoveRand
    /\ MouseStart

NextMouse == rand_mouse_moves

SpecMouse == InitMouse /\ [][NextMouse]_vars

\* ------------------------------------------------------------------ claims
Range(q) == {q[i] : i \in 1..Len(q)}
Last(q) == q[Len(q)]

\* C1: in every attempt the orchestrator touches the capture buffer (zero-fill,
\* dominant_freq) only while no capture thread is running: the zero-fill is over
\* before the thread is started, the analysis starts only after the join, and on
\* the playback-error path the thread is joined before loopback_test returns.
C1_BufferAccessOutsideCapture ==
    /\ ltPc = "zerofill" => recPc \in {"none", "joined"}
    /\ ltPc \in {"analyze", "judge"} => recPc = "joined"
    /\ (ltPc = "returned" /\ devErr = "playback") => recPc = "joined"
    /\ recPc = "running" =>
          ltPc \in {"openPlay", "cfgPlay", "sine", "drain", "join", "catch"}

\* C1 witness: the analysis of a second attempt, whose buffer was zero-filled
\* after the first attempt's capture thread.
C1_Witness == ltPc = "analyze" /\ attempt = 1 /\ recPc = "joined"

C3_PrimaryDeviceErrorRecovered ==
    /\ exitStatus # "terminate"
    /\ (primaryDevErr # "none" /\ primaryResult # "none") => fallbackRan

\* C4: without a device error loopback_test runs at most 3 attempts, returns pass at
\* the first attempt that satisfies the criterion and runs none after it, and
\* returns fail only after exactly 3 attempts that each failed the criterion.
C4_AttemptLimitFirstPass ==
    /\ Len(verdicts) <= MaxAttempts
    /\ attempt <= MaxAttempts
    /\ \A i \in 1..(Len(verdicts) - 1) : ~verdicts[i]
    /\ ltResult = "pass" => (Len(verdicts) >= 1 /\ Last(verdicts))
    /\ (Len(verdicts) >= 1 /\ Last(verdicts) /\ ltPc # "judge") => ltResult = "pass"
    /\ (ltResult = "fail" /\ devErr = "none") =>
          (Len(verdicts) = MaxAttempts /\ \A i \in 1..Len(verdicts) : ~verdicts[i])

\* C4 witness: a call that returned fail after three analysed attempts, no device error.
C4_Witness ==
    /\ ltPc = "returned" /\ ltResult = "fail" /\ devErr = "none"
    /\ Len(verdicts) = MaxAttempts

\* C5: an attempt passes iff the detected frequency d = dominant / duration
\* satisfies d > 0 and |440 - d| <= 5/duration + 1 with the exact absolute
\* difference; for duration 1 exactly the frequencies 434..446 pass.
C5_PassIffExactDeviation ==
    ltPc = "judge" =>
        /\ Last(verdicts) <=>
              (dominant > 0 /\ Abs(test_freq * duration - dominant) <= EpsNum + EpsAdd * duration)
        /\ duration = 1 => (Last(verdicts) <=> dominant \in 434..446)

\* C6: fallback_loopback returns failure only after loopback_test has been tried on
\* every (capture, playback) pair of the two lists that does not involve the
\* excluded device, none of which passed; it returns success as soon as one pair
\* passes and tries no pair after it.
C6_FallbackExhaustive ==
    /\ fbResult = "fail" =>
          /\ passedPairs = {}
          /\ \A p \in Range(playback), r \in Range(record) :
                (p # Excluded /\ r # Excluded) => <<r, p>> \in Range(tried)
    /\ passedPairs # {} => fbResult = "pass"
    /\ fbResult = "pass" =>
          /\ fbPc = "done"
          /\ Len(tried) >= 1
          /\ passedPairs = {Last(tried)}
          /\ \A i \in 1..(Len(tried) - 1) : tried[i] # Last(tried)
    /\ \A i \in 1..Len(tried) :
          tried[i][1] \in Range(record) /\ tried[i][2] \in Range(playback)

\* C6 witness: the search returned failure after at least two pairs.
C6_Witness == fbResult = "fail" /\ Len(tried) >= 2

\* C7 as stated: loopback_test is never called by the fallback search on a pair
\* holding the excluded device, on either side.
C7_ExcludedNeverTried ==
    \A i \in 1..Len(tried) : tried[i][1] # Excluded /\ tried[i][2] # Excluded

\* C7 amended: the fallback search never calls loopback_test on a pair whose
\* playback side is the excluded device (the capture side is not filtered).
C7_ExcludedNeverPlayback ==
    /\ \A i \in 1..Len(tried) : tried[i][2] # Excluded
    /\ fbPc = "call" => ltPlayback # Excluded

\* C7 witness: the excluded device is in the playback list, the outer loop has gone
\* past it and pairs have been tried.
C7_Witness ==
    /\ \E i \in 1..Len(playback) : playback[i] = Excluded /\ pIdx > i
    /\ Len(tried) >= 1
    /\ fbPc = "done"

\* C8: the loopback scenario exits 0 iff the primary pair passed or a pair of the
\* fallback search passed; the fallback search runs exactly when the primary pair
\* did not pass.
C8_ExitStatusAndFallback ==
    mainPc = "exited" =>
        /\ exitStatus = "exit0" <=> (primaryResult = "pass" \/ passedPairs # {})
        /\ exitStatus \in {"exit0", "exit1"}
        /\ fallbackRan <=> primaryResult # "pass"

\* C10: every attempt opens a new capture handle and a new playback handle: the
\* handles an attempt works with were opened in that attempt, are open, differ
\* from each other and from every handle of the earlier attempts.
C10_FreshHandlesPerAttempt ==
    /\ ltPc \in {"cfgRec", "spawn", "openPlay", "cfgPlay", "sine", "drain", "join",
                 "analyze", "judge", "catch"} => recorder # NoHandle
    /\ ltPc \in {"cfgPlay", "sine", "drain", "join"} => player # NoHandle
    /\ recorder # NoHandle =>
          /\ recorder.attempt = attempt
          /\ recorder.id \notin prevHandles
          /\ recorder.id \in openHandles
    /\ player # NoHandle =>
          /\ player.attempt = attempt
          /\ player.id \notin prevHandles
          /\ player.id \in openHandles
          /\ player.id # recorder.id

\* C10 witness: the third attempt waits for its capture thread with both of its
\* handles, after two attempts that released theirs.
C10_Witness ==
    /\ ltPc = "join" /\ attempt = 2 /\ Cardinality(prevHandles) = 4
    /\ recorder # NoHandle /\ player # NoHandle

\* C9: ~Pcm releases a handle by the direction it was opened with: a playback
\* handle is drained and not dropped, a capture handle is dropped and not drained,
\* and either is closed afterwards.
C9_ReleaseByOpenDirection ==
    \A i \in 1..Len(pcmLog) :
        /\ pcmLog[i].openedAs = "playback" =>
              pcmLog[i].dtor = <<"snd_pcm_drain", "snd_pcm_close">>
        /\ pcmLog[i].openedAs = "capture" =>
              pcmLog[i].dtor = <<"snd_pcm_drop", "snd_pcm_close">>

\* C11 as stated: every handle of loopback_test is used by one task only, the one
\* that opened it.
C11_HandleUsedByOneTask ==
    Cardinality(recUsers) <= 1 /\ Cardinality(playUsers) <= 1

\* C11 amended: the playback handle is used by the orchestrator only; the capture
\* handle is opened, configured and released by the orchestrator and read by the
\* capture thread, and the two never use it at the same time (the orchestrator
\* calls into it only before the thread is started and after it is joined).
C11_HandleNeverUsedConcurrently ==
    /\ playUsers \subseteq {"main"}
    /\ recUsers \subseteq {"main", "rec_thread"}
    /\ ~concurrentUse
    /\ "rec_thread" \in recUsers => "main" \in recUsers
    /\ ltPc \in {"analyze", "judge"} => recUsers = {"main", "rec_thread"}
    /\ ltPc \in {"openRec", "cfgRec", "judge"} => recPc # "running"

\* C11 witness: a call returned pass after the capture thread read from the handle
\* the orchestrator opened and released.
C11_Witness ==
    /\ ltPc = "returned" /\ ltResult = "pass"
    /\ recUsers = {"main", "rec_thread"} /\ playUsers = {"main"}

\* C12: no stream handle leaks: the handles of an attempt are closed before the next
\* attempt opens its own, and none is open when loopback_test is left, whether by
\* return 0, return 1 or a device error.
C12_NoHandleLeak ==
    /\ ltPc \in {"returned", "idle"} => openHandles = {}
    /\ ltPc \in {"loopHead", "zerofill", "openRec"} => openHandles = {}
    /\ Cardinality(openHandles) <= 2

\* C13: for int16, uint16 and float and every amplitude in [0, 1], the sample
\* sine() stores lies in [min_val, max_val] of the encoding, is the scaled value
\* itself (the assignment did not wrap or clamp it), and both channels of the
\* frame hold the same value.
C13_SampleInRange ==
    smPc = "stored" =>
        /\ smFrame[1] = smFrame[2]
        /\ IF smEnc = "float"
           THEN /\ smFrame[1] >= min_val(smEnc) * SampleDen
                /\ smFrame[1] <= max_val(smEnc) * SampleDen
                /\ smFrame[1] = ScaledSample(smEnc, smSin, smAmp)
           ELSE /\ smFrame[1] >= min_val(smEnc)
                /\ smFrame[1] <= max_val(smEnc)
                /\ smFrame[1] * SampleDen <= ScaledSample(smEnc, smSin, smAmp) + (SampleDen - 1)
                /\ smFrame[1] * SampleDen >= ScaledSample(smEnc, smSin, smAmp) - (SampleDen - 1)

\* A full-scale positive int16 sample at full volume has been stored.
C13_Witness ==
    /\ smPc = "stored"
    /\ smEnc = "int16"
    /\ smSin = SineSteps
    /\ smAmp = AmpSteps
    /\ smFrame = <<32767, 32767>>

\* C14 as stated: when sine() has returned, the frames it passed to the device
\* are exactly rate x duration, whatever the period size.
C14_ExactFrameCount ==
    snPc = "done" => snFrames = snRate * snDur

\* C14 amended: sine() passes whole periods to the device: the smallest number
\* of periods that covers rate x duration, so at least rate x duration frames and
\* less than one period more; exactly rate x duration when the period divides it.
C14_WholePeriodsCover ==
    /\ snFrames = snWrites * snPeriod
    /\ snFrames = snT
    /\ snPc = "done" =>
          /\ snFrames >= snRate * snDur
          /\ snFrames - snPeriod < snRate * snDur
          /\ ((snRate * snDur) % snPeriod = 0 => snFrames = snRate * snDur)

\* A call has returned after passing more frames than rate x duration.
C14_Witness ==
    /\ snPc = "done"
    /\ (snRate * snDur) % snPeriod # 0
    /\ snFrames > snRate * snDur

\* C15: every underrun is followed by a reset of the stream to the prepared state
\* before the next period is written, the loop goes on with the following
\* periods, no device error leaves sine(), and sine() returns after the same
\* number of writes whatever number of them reported an underrun.
C15_UnderrunRecovered ==
    /\ [](/\ ~snRaised
          /\ snPrepares = snUnderruns
          /\ snStream # "xrun"
          /\ snT = snWrites * snPeriod
          /\ (snPc = "done" => ~SineLoopContinues(snT, snRate, snDur)))
    /\ <>(snPc = "done")

\* sine() has returned although every one of its writes reported an underrun.
C15_Witness ==
    /\ snPc = "done"
    /\ snWrites >= 4
    /\ snUnderruns = snWrites
    /\ snPrepares = snWrites

\* C16: record(buff, n) returns only after n samples read from the device are in
\* buff[0..n): whole periods are read into buff while a full period remains, the
\* rest comes through the scratch buffer, nothing is written at or beyond index
\* n, and the call returns.
C16_RecordCapturesAll ==
    /\ rcHigh <= rcN
    /\ rcPos <= rcN
    /\ rcPc = "done" => (rcCaptured = rcN /\ rcGarbage = 0)

\* C17: dominant_freq returns i / (n / rate) for the index i of the largest
\* magnitude among bins 0 .. floor(n/2)-1 (the first such index), never a bin of
\* the second half, so the result is below rate/2; it returns 0.0 when there is
\* no bin to search.
C17_DominantInFirstHalf ==
    dfPc = "done" =>
        IF dfN \div 2 = 0
        THEN dfResult = [num |-> 0, den |-> 1]
        ELSE \E i \in 0..(dfN \div 2 - 1) :
                /\ dfResult = [num |-> i * dfRate, den |-> dfN]
                /\ \A j \in 0..(dfN \div 2 - 1) : dfMag[j + 1] <= dfMag[i + 1]
                /\ 2 * dfResult.num < dfRate * dfResult.den

\* The largest magnitude of the whole spectrum lies in the second half, and the
\* largest of the first half, which is not bin 0, has been returned.
C17_Witness ==
    /\ dfPc = "done"
    /\ dfN = 5
    /\ dfMag = <<0, 1, 0, 2, 2>>
    /\ dfResult = [num |-> dfRate, den |-> 5]

\* C18: the capture buffer loopback_test allocates has a power-of-two length, so
\* that no call of fft splits an odd length.
C18_BufferPowerOfTwo ==
    ffPc # "input" => (IsPowerOfTwo(ffBuffsize) /\ ~ffOddSplit)

\* C19: when main has exited, a scenario word other than playback, loopback,
\* list-formats and list-devices (or none at all) gave status 1 and no test was
\* run, and status 0 was given only when the selected scenario succeeded.
C19_UnknownScenarioExitsOne ==
    clPc = "exited" =>
        /\ clScenario \notin Dispatched => (clExit = "exit1" /\ clRan = <<>>)
        /\ clExit = "exit0" => clOutcome = "pass"

\* C20: in sequential and in parallel start-up, under every interleaving, the
\* threads get pairwise distinct thread_ids within 0..num_threads-1, all of them
\* once main has left its creation loop; every pthread_create call is given a
\* different slot of threads[]; and mmap_regions[i] and loop_counters[i] are
\* written by no thread but the one whose thread_id is i.
C20_DistinctThreadIds ==
    /\ \A j, k \in IdentifiedThreads : j # k => thId[j] # thId[k]
    /\ \A j \in IdentifiedThreads : thId[j] \in 0..(num_threads - 1)
    /\ Len(handleSlots) <= num_threads
    /\ \A a, b \in 1..Len(handleSlots) : a # b => handleSlots[a] # handleSlots[b]
    /\ \A a \in 1..Len(handleSlots) : handleSlots[a] \in 0..(num_threads - 1)
    /\ \A i \in SlotIds :
          /\ regionWriters[i] \subseteq {j \in IdentifiedThreads : thId[j] = i}
          /\ counterWriters[i] \subseteq {j \in IdentifiedThreads : thId[j] = i}
    /\ mtPc \notin {"test", "reset", "create", "wait", "callMmapWait", "sleepMmap"} =>
          /\ {thId[j] : j \in IdentifiedThreads} = 0..(num_threads - 1)
          /\ Len(handleSlots) = num_threads

\* A parallel start-up of the largest number of threads has completed and every
\* thread has started testing.
C20_Witness ==
    /\ parallel
    /\ num_threads = MaxThreads
    /\ mtPc = "testing"
    /\ \A j \in 1..num_threads : thPc[j] = "body"
    /\ \A i \in 0..(num_threads - 1) :
          Cardinality(regionWriters[i]) = 1 /\ counterWriters[i] = regionWriters[i]

\* C21: no thread unmaps its region while a thread is inside the test loop: when
\* a thread is at munmap or past it no thread is in an iteration of the loop, and
\* no iteration ever touches a region that has been unmapped, under every
\* interleaving of thread start, the done flag and the finish barrier.
C21_NoUnmapDuringTest ==
    /\ ~staleAccess
    /\ \A j, k \in ThreadPool :
          thPc[j] \in {"unmap", "returned"} => thPc[k] # "body"
    /\ \A k \in ThreadPool : thPc[k] = "body" => unmapped = {}

\* C22: under fair scheduling start-up completes: main leaves every wait on
\* mmap_cond and init_cond, sets the start time, and each of the num_threads
\* threads leaves its wait on test_start.
C22_StartupCompletes ==
    <>(\A j \in 1..num_threads :
          thPc[j] \in {"incRead", "incWrite", "loopTest", "body", "finLock",
                       "decWrite", "sleepFinish", "finRecheck", "unmap", "returned"})

\* C23: under fair scheduling, once done is set every thread passes the finish
\* barrier and returns and main joins each of the num_threads threads exactly
\* once; running_threads never underflows.
C23_ShutdownTerminates ==
    /\ [](running_threads >= 0)
    /\ [](mtPc = "exited" =>
            /\ Len(joined) = num_threads
            /\ \A a, b \in 1..Len(joined) : a # b => joined[a] # joined[b])
    /\ (done = 1) ~> (mtPc = "exited")

\* C24: the exit status is nonzero exactly when a thread detected corruption or
\* the run was interrupted before the full runtime.
C24_ExitStatusReportsOutcome ==
    mtPc = "exited" => (rv # 0 <=> (corrupted \/ timerI # runtime))

\* C25: test_clock_direction returns failure exactly when one of its 5
\* iterations measured more than 60.01 s (a delta of 0.01 s or less, a negative
\* one included, passes); main runs it only after a jitter test that returned 0
\* and exits with the result of the last test it ran.
C25_DirectionVerdict ==
    /\ ckJitter > 0 => ckElapsed = <<>> /\ ckFailures = 0
    /\ (ckPc \in {"mainReturn", "exited"} /\ ckJitter = 0) =>
          /\ Len(ckElapsed) = 5
          /\ ckFailures =
                Cardinality({i \in 1..5 :
                    (ckElapsed[i][1] - 60) * 1000000 + ckElapsed[i][2] > 10000})
          /\ ckMainFailures = IF ckFailures > 0 THEN 1 ELSE 0
    /\ ckPc = "exited" =>
          ckExit = IF ckJitter = 0 THEN (IF ckFailures > 0 THEN 1 ELSE 0) ELSE ckJitter

\* The direction test passed with a sleep cut short, a clock set back and a
\* delta of exactly 0.01 s among its iterations.
C25_Witness ==
    /\ ckPc = "exited"
    /\ ckJitter = 0
    /\ ckExit = 0
    /\ \E i, j, k \in 1..5 :
          /\ ckElapsed[i] = <<59, 999999>>
          /\ ckElapsed[j] = <<-1, 500000>>
          /\ ckElapsed[k] = <<60, 10000>>

\* C26: in the playback scenario the stream is opened on the device selected
\* with --playback-pcm, "default" only when the option is absent.
C26_PlaybackOnSelectedDevice ==
    clOpened # "none" =>
        /\ clPlaybackPcm = (IF clPlaybackOpt = "" THEN "default" ELSE clPlaybackOpt)
        /\ clOpened = clPlaybackPcm

\* C27: fft terminates for every length N >= 0; every call it makes receives
\* floor(N/2) < N elements, so at most floor(log2 N) + 1 calls are active; a call
\* on N elements reads and writes only the indexes 0 .. 2*floor(N/2)-1, so for
\* odd N > 1 the last element is neither read nor written.
C27_FftTerminates ==
    /\ [](\A i \in 2..Len(fcStack) :
             /\ fcStack[i].n = fcStack[i - 1].n \div 2
             /\ fcStack[i].n < fcStack[i - 1].n)
    /\ [](fcN >= 1 => \E d \in 0..fcN : 2 ^ d <= fcN /\ fcN < 2 ^ (d + 1)
                                        /\ fcMaxDepth <= d + 1)
    /\ [](\A i \in 1..Len(fcStack) :
             LET n == fcStack[i].n
             IN  /\ fcStack[i].written \subseteq 0..(2 * (n \div 2) - 1)
                 /\ fcStack[i].read \subseteq 0..(2 * (n \div 2) - 1)
                 /\ (n > 1 /\ n % 2 = 1) =>
                       (n - 1) \notin (fcStack[i].written \cup fcStack[i].read))
    /\ <>(fcPc = "done")

\* The outermost call returned on a buffer of odd length, after a call on a
\* shorter odd length three calls deep had done its butterflies.
C27_Witness ==
    /\ fcPc = "done"
    /\ fcN = 7
    /\ fcMaxDepth = 3
    /\ fcStack[1].written = 0..5

\* C28: among the bins that share the largest magnitude dominant_freq returns
\* the lowest; for a non-empty buffer of silence (whose spectrum is all zero) it
\* returns 0.0 Hz and loopback_test counts the attempt as failed, whatever the
\* duration.
C28_TiesGoToLowestBin ==
    dfPc \in {"done", "judged"} =>
        /\ \A i \in 0..(dfN \div 2 - 1) :
              (/\ \A j \in 0..(dfN \div 2 - 1) : dfMag[j + 1] <= dfMag[i + 1]
               /\ \A j \in 0..(i - 1) : dfMag[j + 1] # dfMag[i + 1])
              => dfResult = [num |-> i * dfRate, den |-> dfN]
        /\ (dfN >= 1 /\ \A k \in 1..dfN : dfMag[k] = 0) =>
              /\ dfResult.num = 0
              /\ dfPc = "judged" => dfVerdict = "fail"

\* Silence in a buffer of five samples: both searched bins are maximal, bin 0 was
\* returned and the attempt failed.
C28_Witness ==
    /\ dfPc = "judged"
    /\ dfN = 5
    /\ dfMag = <<0, 0, 0, 0, 0>>
    /\ dfResult.num = 0
    /\ dfVerdict = "fail"

\* C29: no capability flag is read before it was cleared, so every capability
\* line printed comes from a flag that print_phy_handler or the lspci heuristic
\* set, on every path through main; and nl_recvmsgs is not called again once
\* finish_handler or error_handler has run.
C29_FlagsInitialisedBeforeRead ==
    /\ wfUninitRead = {}
    /\ \A f \in wfPrinted : wfSetBy[f] \in {"print_phy_handler", "lspci"}
    /\ ~wfRecvAfter

RECURSIVE SumOfMoves(_)
SumOfMoves(moves) ==
    IF moves = <<>> THEN <<0, 0>>
    ELSE LET rest == SumOfMoves(Tail(moves))
         IN  <<Head(moves)[1] + rest[1], Head(moves)[2] + rest[2]>>

\* The quotient of a by s > 0, rounded towards zero.
Towards0(a, s) == IF a < 0 THEN -((-a) \div s) ELSE a \div s

\* C30: for x and y in -50 .. 50 the moves rand_mouse_moves emits sum to (x, y):
\* steps = max(|x|,|y|)/5 moves of (x/steps, y/steps), then at most one move of
\* the remainders; with steps = 0 the single move (x, y), or none when
\* x = y = 0; and no division by zero is made.
C30_MovesSumToTarget ==
    /\ mvX \in -50..50 /\ mvY \in -50..50
    /\ ~mvDivByZero
    /\ mvPc = "done" =>
          LET m == IF Abs(mvX) > Abs(mvY) THEN Abs(mvX) ELSE Abs(mvY)
              steps == m \div 5
          IN  /\ SumOfMoves(mvMoves) = <<mvX, mvY>>
              /\ Len(mvMoves) \in {steps, steps + 1}
              /\ \A i \in 1..steps :
                    mvMoves[i] = <<Towards0(mvX, steps), Towards0(mvY, steps)>>
              /\ Len(mvMoves) = steps + 1 =>
                    /\ mvMoves[steps + 1] # <<0, 0>>
                    /\ steps > 0 =>
                          mvMoves[steps + 1] = <<mvX - steps * Towards0(mvX, steps),
                                                 mvY - steps * Towards0(mvY, steps)>>
              /\ steps = 0 =>
                    mvMoves = IF mvX = 0 /\ mvY = 0 THEN <<>> ELSE << <<mvX, mvY>> >>

\* Nine moves of (-5, 2) and the remainder (-2, 5) for the target (-47, 23); the
\* quotient and the remainder of the negative x are those of C.
C30_Witness ==
    /\ mvPc = "done"
    /\ mvX = -47
    /\ mvY = 23
    /\ Len(mvMoves) = 10
    /\ mvMoves[1] = <<-5, 2>>
    /\ mvMoves[10] = <<-2, 5>>

====
